---- MODULE Spec2Model ----
(***************************************************************************)
(* SafeCommit backend: the POST /v1/review/diff handler, the Gemini review *)
(* client (ask model, validate, repair once, fail), the response schema,   *)
(* the summary builder and the byte truncation of the diff.                *)
(***************************************************************************)
EXTENDS Integers, Sequences, FiniteSets, TLC

VARIABLES
    server,     \* "starting" | "listening" | "crashed" (index.ts module load)
    pc,         \* pc[r]: "idle" | "awaiting" | "responded" (position of the handler of request r)
    body,       \* body[r]: the JSON body of request r (req.body)
    calls,      \* calls[r]: the generateContent calls reviewDiff has issued for r, in order
    resp,       \* resp[r]: the HTTP response sent for r ([status |-> 0] while none)
    sent,       \* sent[r]: how many times the handler of r has sent a response
    config,     \* config.ts: the configuration read from the environment
    tInput,     \* truncateByBytes: input string
    tMaxBytes,  \* truncateByBytes: maxBytes
    tResult,    \* truncateByBytes: returned string
    tPc,        \* "init" | "done"
    schema,     \* the schema validator applied to one finding and one summary
    parse,      \* the client's parse-and-validate step applied to one response text
    hook,       \* one run of the pre-commit hook process
    install,    \* the install-hook command and the .git/hooks directory
    statusHook, \* one run of the status-reporting pre-commit hook and its status file
    ext,        \* the extension: panel, review history, hook states, status file
    watch       \* the extension: workspace folders, hook watchers and pollers

vars == <<server, pc, body, calls, resp, sent, config, tInput, tMaxBytes, tResult, tPc,
          schema, parse, hook, install, statusHook, ext, watch>>

\* the status-reporting hook and the extension's panel and watchers
clientVars == <<statusHook, ext, watch>>

handlerVars == <<server, pc, body, calls, resp, sent, config>>
truncVars == <<tInput, tMaxBytes, tResult, tPc>>
\* everything but the server
besidesHandler == <<truncVars, schema, parse, hook, install, clientVars>>

\* a component that is not running
NotRunning == [pc |-> "idle"]

ClientsOff == statusHook = NotRunning /\ ext = NotRunning /\ watch = NotRunning

----------------------------------------------------------------------------
(* Bounds of the model *)

\* requests the server handles concurrently
NumReqs == 2
\* longest input string (in characters) given to truncateByBytes
MaxLen == 3
\* largest byte limit given to truncateByBytes; also the configured
\* DEFAULT_MAX_DIFF_BYTES of the modelled server
MaxBytes == 4
\* longest finding list given to buildSummary on its own
MaxFindings == 3

Reqs == 1..NumReqs

----------------------------------------------------------------------------
(* Strings and UTF-8.  A string is a sequence of characters; a character   *)
(* is named by its code point and has the UTF-8 width of that code point.  *)

\* U+0061 'a', U+00E9, U+20AC, U+1F600, the unpaired surrogate U+D800 (a
\* JavaScript string may hold one) and the replacement character U+FFFD
InputChars == {"U0061", "U00E9", "U20AC", "U1F600", "UD800"}
ReplacementChar == "UFFFD"

\* the character whose UTF-8 bytes Buffer.from writes for c: an unpaired
\* surrogate is written as U+FFFD
Encoded(c) == IF c = "UD800" THEN ReplacementChar ELSE c

Width(c) ==
    CASE c = "U0061" -> 1
      [] c = "U000A" -> 1
      [] c = "U00E9" -> 2
      [] c = "U20AC" -> 3
      [] c = "UFFFD" -> 3
      [] c = "UD800" -> 3
      [] c = "U1F600" -> 4

\* Buffer.from(input, "utf8"): byte i of the encoding of character c is [c, i]
EncodeChar(c) == [i \in 1..Width(c) |-> [c |-> Encoded(c), i |-> i]]

RECURSIVE BufferFrom(_)
BufferFrom(s) ==
    IF s = <<>> THEN <<>> ELSE EncodeChar(Head(s)) \o BufferFrom(Tail(s))

\* Buffer.byteLength(input, "utf8")
byteLength(s) == Len(BufferFrom(s))

\* buf.subarray(0, n)
subarray(buf, n) == SubSeq(buf, 1, IF n < Len(buf) THEN n ELSE Len(buf))

\* the longest prefix of buf that continues the sequence started by its first byte
RECURSIVE SubpartLen(_, _, _)
SubpartLen(buf, c, k) ==
    IF k < Len(buf) /\ k < Width(c) /\ buf[k + 1] = [c |-> c, i |-> k + 1]
    THEN SubpartLen(buf, c, k + 1)
    ELSE k

\* buf.toString("utf8"): a complete sequence decodes to its character; an
\* incomplete or stray sequence is replaced by one U+FFFD per maximal subpart
RECURSIVE toString(_)
toString(buf) ==
    IF buf = <<>> THEN <<>>
    ELSE IF Head(buf).i # 1
         THEN <<ReplacementChar>> \o toString(Tail(buf))
         ELSE LET c == Head(buf).c
                  k == SubpartLen(buf, c, 1)
              IN  (IF k = Width(c) THEN <<c>> ELSE <<ReplacementChar>>)
                  \o toString(SubSeq(buf, k + 1, Len(buf)))

\* variant: without the early return
truncateByBytes_AlwaysDecode(input, maxBytes) ==
    LET buf == BufferFrom(input)
    IN  toString(subarray(buf, maxBytes))

truncateByBytes(input, maxBytes) ==
    LET bytes == byteLength(input) IN
    IF bytes <= maxBytes
    THEN input
    ELSE LET buf == BufferFrom(input)
         IN  toString(subarray(buf, maxBytes))

----------------------------------------------------------------------------
(* JSON values.  A scalar is a string, an integer, a non-integer number    *)
(* (n + 1/2) or an absent key.                                             *)

Str(s) == [k |-> "str", n |-> 0, s |-> s]
Num(n) == [k |-> "num", n |-> n, s |-> ""]
Frac(n) == [k |-> "frac", n |-> n, s |-> ""]
Absent == [k |-> "absent", n |-> 0, s |-> ""]

\* z.string().min(1)
zStringMin1(v) == v.k = "str" /\ v.s # ""
\* z.number().int().min(1)
zIntMin1(v) == v.k = "num" /\ v.n >= 1
\* z.number().int().nonnegative()
zIntNonnegative(v) == v.k = "num" /\ v.n >= 0
\* z.string().optional()
zStringOptional(v) == v.k = "str" \/ v.k = "absent"

Severities == {"nit", "suggestion", "warning", "critical"}

severityEnum(v) == v.k = "str" /\ v.s \in Severities

\* variant: the refinement written with > instead of >=
findingSchema_StrictlyAfter(f) ==
    /\ zStringMin1(f.file)
    /\ zIntMin1(f.lineStart)
    /\ zIntMin1(f.lineEnd)
    /\ severityEnum(f.severity)
    /\ zStringMin1(f.title)
    /\ zStringMin1(f.message)
    /\ zStringMin1(f.rationale)
    /\ zStringOptional(f.patch)
    /\ f.lineEnd.n > f.lineStart.n

findingSchema(f) ==
    /\ zStringMin1(f.file)
    /\ zIntMin1(f.lineStart)
    /\ zIntMin1(f.lineEnd)
    /\ severityEnum(f.severity)
    /\ zStringMin1(f.title)
    /\ zStringMin1(f.message)
    /\ zStringMin1(f.rationale)
    /\ zStringOptional(f.patch)
    /\ f.lineEnd.n >= f.lineStart.n

findingsSchema(fs) == \A i \in 1..Len(fs) : findingSchema(fs[i])

summarySchema(s) ==
    /\ s.present
    /\ zIntNonnegative(s.totalFindings)
    /\ \A key \in DOMAIN s.bySeverity : zIntNonnegative(s.bySeverity[key])
    /\ zIntNonnegative(s.durationMs)

reviewResponseSchema(json) ==
    /\ findingsSchema(json.findings)
    /\ summarySchema(json.summary)

\* z.array(z.string().min(1))
zArrayOfStringMin1(v) ==
    /\ v.present
    /\ \A i \in 1..Len(v.items) : v.items[i] # <<>>

\* variant: diff declared z.string() without min(1)
reviewRequestSchema_EmptyDiff(b) ==
    /\ zStringMin1(b.repoId)
    /\ b.diff.present
    /\ zArrayOfStringMin1(b.files)

reviewRequestSchema(b) ==
    /\ zStringMin1(b.repoId)
    /\ b.diff.present /\ b.diff.text # <<>>
    /\ zArrayOfStringMin1(b.files)

----------------------------------------------------------------------------
(* Model responses.  A response text is the JSON document `value`,         *)
(* possibly surrounded by whitespace (ws) and possibly not strict JSON     *)
(* (prose around it, a trailing comma): json = FALSE.                      *)

Finding(file, lineStart, lineEnd, severity, title) ==
    [file |-> file, lineStart |-> lineStart, lineEnd |-> lineEnd,
     severity |-> severity, title |-> title,
     message |-> Str("m"), rationale |-> Str("r"), patch |-> Absent]

SummaryJson(total, counts, duration) ==
    [present |-> TRUE, totalFindings |-> total, bySeverity |-> counts,
     durationMs |-> duration]

NoSummaryJson ==
    [present |-> FALSE, totalFindings |-> Absent,
     bySeverity |-> [key \in {} |-> Absent], durationMs |-> Absent]

Counts(nit, suggestion, warning, critical) ==
    [key \in Severities |->
        CASE key = "nit" -> Num(nit)
          [] key = "suggestion" -> Num(suggestion)
          [] key = "warning" -> Num(warning)
          [] key = "critical" -> Num(critical)]

FWarn == Finding(Str("x"), Num(1), Num(1), Str("warning"), Str("t"))
FCrit == [Finding(Str("x"), Num(2), Num(5), Str("critical"), Str("u"))
            EXCEPT !.patch = Str("p")]
FNit == Finding(Str("y"), Num(3), Num(3), Str("nit"), Str("n"))
\* lineEnd < lineStart
FBackwards == Finding(Str("x"), Num(4), Num(3), Str("warning"), Str("t"))
\* severity outside the enum
FBlocker == Finding(Str("x"), Num(1), Num(1), Str("blocker"), Str("t"))

Json(findings, summary) == [findings |-> findings, summary |-> summary]

Text(ws, json, value) == [ws |-> ws, json |-> json, value |-> value]

\* documents that satisfy reviewResponseSchema
DocNone == Json(<<>>, SummaryJson(Num(0), Counts(0, 0, 0, 0), Num(5)))
DocThree ==
    Json(<<FNit, FCrit, FNit>>, SummaryJson(Num(3), Counts(2, 0, 0, 1), Num(5)))
\* the same findings under a summary that contradicts them
DocThreeWrongSummary ==
    Json(<<FNit, FCrit, FNit>>, SummaryJson(Num(1), Counts(0, 0, 4, 0), Num(0)))
\* documents that violate it
DocBackwards ==
    Json(<<FWarn, FBackwards>>, SummaryJson(Num(2), Counts(0, 0, 2, 0), Num(5)))
DocBlocker == Json(<<FBlocker>>, SummaryJson(Num(1), Counts(0, 0, 0, 0), Num(5)))
DocNegativeCount ==
    Json(<<FWarn>>, SummaryJson(Num(1), Counts(0, 0, 1, -1), Num(5)))
DocFractionalTotal ==
    Json(<<FWarn>>, SummaryJson(Frac(1), Counts(0, 0, 1, 0), Num(5)))
DocNoSummary == Json(<<FCrit>>, NoSummaryJson)

ValidTexts ==
    { Text(FALSE, TRUE, DocNone),
      Text(FALSE, TRUE, DocThree),
      Text(TRUE, TRUE, DocThreeWrongSummary) }

\* a valid document wrapped in prose, a finding with lineEnd < lineStart,
\* a negative count in the summary
InvalidTexts ==
    { Text(TRUE, FALSE, DocThree),
      Text(FALSE, TRUE, DocBackwards),
      Text(TRUE, TRUE, DocNegativeCount) }

Texts == ValidTexts \cup InvalidTexts

\* String.prototype.trim
trim(text) == [text EXCEPT !.ws = FALSE]

\* JSON.parse throws on a text that is not strict JSON (whitespace around
\* the document is allowed by the grammar)
JSONparseThrows(text) == ~text.json
JSONparse(text) == text.value

safeParseJsonThrows(text) == JSONparseThrows(trim(text))
safeParseJson(text) == JSONparse(trim(text))

\* variant: only the findings are validated
tryParse_FindingsOnly(text) ==
    IF safeParseJsonThrows(text)
    THEN [ok |-> FALSE, error |-> "SyntaxError"]
    ELSE LET json == safeParseJson(text) IN
         IF ~findingsSchema(json.findings)
         THEN [ok |-> FALSE, error |-> "Schema validation failed"]
         ELSE [ok |-> TRUE, data |-> json]

tryParse(text) ==
    IF safeParseJsonThrows(text)
    THEN [ok |-> FALSE, error |-> "SyntaxError"]
    ELSE LET json == safeParseJson(text) IN
         IF ~reviewResponseSchema(json)
         THEN [ok |-> FALSE, error |-> "Schema validation failed"]
         ELSE [ok |-> TRUE, data |-> json]

----------------------------------------------------------------------------
(* Prompts.  A prompt is the list of the parts that join("\n\n") glues.    *)

buildUserPrompt(diff, files) ==
    [kind |-> "user",
     parts |-> << "You must review ONLY the staged diff below.",
                  "File list:",
                  files,
                  "Staged diff:",
                  diff,
                  "Return ONLY valid JSON matching this schema:",
                  "schemaHint" >>]

\* variant: embeds the trimmed output
buildRepairPrompt_Trimmed(badOutput) ==
    [kind |-> "repair",
     parts |-> << "The previous response was invalid.",
                  "Return ONLY valid JSON matching the required schema. No markdown, no commentary.",
                  "Here is the invalid output:",
                  [badOutput EXCEPT !.ws = FALSE] >>]

buildRepairPrompt(badOutput) ==
    [kind |-> "repair",
     parts |-> << "The previous response was invalid.",
                  "Return ONLY valid JSON matching the required schema. No markdown, no commentary.",
                  "Here is the invalid output:",
                  badOutput >>]

----------------------------------------------------------------------------
(* Summary builder *)

\* variant: bySeverity[key] = bySeverity[key] || 1
Increment_Once(bySeverity, key) ==
    IF key \in DOMAIN bySeverity /\ bySeverity[key] # 0
    THEN bySeverity
    ELSE [k \in DOMAIN bySeverity \cup {key} |-> IF k = key THEN 1 ELSE bySeverity[k]]

\* bySeverity[key] = (bySeverity[key] || 0) + 1
Increment(bySeverity, key) ==
    IF key \in DOMAIN bySeverity
    THEN [bySeverity EXCEPT ![key] = @ + 1]
    ELSE bySeverity @@ (key :> 1)

RECURSIVE CountLoop(_, _, _)
CountLoop(findings, i, bySeverity) ==
    IF i > Len(findings) THEN bySeverity
    ELSE CountLoop(findings, i + 1, Increment(bySeverity, findings[i].severity.s))

buildSummary(findings, durationMs) ==
    LET bySeverity == [key \in {"nit", "suggestion", "warning", "critical"} |-> 0]
    IN  [totalFindings |-> Len(findings),
         bySeverity |-> CountLoop(findings, 1, bySeverity),
         durationMs |-> durationMs]

----------------------------------------------------------------------------
(* Review client: GeminiProvider.reviewDiff, cut at its two awaits.  Each  *)
(* piece returns what reviewDiff does next: issue a model call, return     *)
(* findings, or throw.                                                     *)

CallModel(prompt, message) == [kind |-> "call", prompt |-> prompt, message |-> message]
Return(findings) == [kind |-> "return", findings |-> findings]
Throw(message) == [kind |-> "throw", message |-> message]

\* up to the first await
reviewDiffStart(diff, files) ==
    CallModel(buildUserPrompt(diff, files), "Gemini request timed out")

\* variant: asks for a repair whatever the first response was
reviewDiffAfterFirst_AlwaysRepair(firstText) ==
    CallModel(buildRepairPrompt(firstText), "Gemini repair request timed out")

\* variant: returns the findings of any response that parses as JSON
reviewDiffAfterFirst_NoSchema(firstText) ==
    IF ~safeParseJsonThrows(firstText)
    THEN Return(safeParseJson(firstText).findings)
    ELSE CallModel(buildRepairPrompt(firstText), "Gemini repair request timed out")

\* variant: keeps as many findings as the model's summary announces
reviewDiffAfterFirst_TrustsTotal(firstText) ==
    LET parsed == tryParse(firstText) IN
    IF parsed.ok
    THEN LET total == parsed.data.summary.totalFindings.n
             n == IF total < Len(parsed.data.findings)
                  THEN total ELSE Len(parsed.data.findings)
         IN  Return(SubSeq(parsed.data.findings, 1, n))
    ELSE CallModel(buildRepairPrompt(firstText), "Gemini repair request timed out")

\* from the first await to the second
reviewDiffAfterFirst(firstText) ==
    LET parsed == tryParse(firstText) IN
    IF parsed.ok
    THEN Return(parsed.data.findings)
    ELSE CallModel(buildRepairPrompt(firstText), "Gemini repair request timed out")

\* variant: keeps asking for repairs
reviewDiffAfterRepair_Retry(repairText) ==
    LET repaired == tryParse(repairText) IN
    IF ~repaired.ok
    THEN CallModel(buildRepairPrompt(repairText), "Gemini repair request timed out")
    ELSE Return(repaired.data.findings)

\* after the second await
reviewDiffAfterRepair(repairText) ==
    LET repaired == tryParse(repairText) IN
    IF ~repaired.ok
    THEN Throw("Model returned invalid JSON after repair attempt")
    ELSE Return(repaired.data.findings)

\* withTimeout: Promise.race of the model call and the timer
Fulfilled(text) == [kind |-> "fulfilled", text |-> text]
Rejected(message) == [kind |-> "rejected", message |-> message]

\* variant: a failed first call is treated like an invalid first response
reviewDiffResume_RepairOnFailure(n, settled) ==
    IF settled.kind = "rejected"
    THEN IF n = 1
         THEN CallModel(buildRepairPrompt(Text(FALSE, FALSE, DocNone)),
                        "Gemini repair request timed out")
         ELSE Throw(settled.message)
    ELSE IF n = 1
         THEN reviewDiffAfterFirst(settled.text)
         ELSE reviewDiffAfterRepair(settled.text)

\* reviewDiff resumes when the n-th awaited race has settled
reviewDiffResume(n, settled) ==
    IF settled.kind = "rejected"
    THEN Throw(settled.message)
    ELSE IF n = 1
         THEN reviewDiffAfterFirst(settled.text)
         ELSE reviewDiffAfterRepair(settled.text)

----------------------------------------------------------------------------
(* HTTP handler: app.post("/v1/review/diff")                               *)

\* variant: a failed review is answered as a review without findings
handlerFinish_Swallow(requestId, review, durationMs) ==
    IF review.kind = "throw" \/ ~findingsSchema(review.findings)
    THEN [status |-> 200, requestId |-> requestId,
          findings |-> <<>>, summary |-> buildSummary(<<>>, durationMs)]
    ELSE [status |-> 200, requestId |-> requestId,
          findings |-> review.findings,
          summary |-> buildSummary(review.findings, durationMs)]

\* the handler after provider.reviewDiff has returned or thrown
handlerFinish(requestId, review, durationMs) ==
    IF review.kind = "throw"
    THEN [status |-> 502, requestId |-> requestId,
          error |-> "Failed to review diff", message |-> review.message]
    ELSE IF ~findingsSchema(review.findings)
         THEN [status |-> 502, requestId |-> requestId,
               error |-> "Invalid findings from provider"]
         ELSE [status |-> 200, requestId |-> requestId,
               findings |-> review.findings,
               summary |-> buildSummary(review.findings, durationMs)]

handlerInvalidRequest(requestId) ==
    [status |-> 400, requestId |-> requestId,
     error |-> "Invalid request", details |-> "flatten"]

\* variant: the call is awaited without a timer
PendingCall_NoTimer(c) ==
    [prompt |-> c.prompt, message |-> c.message, state |-> "pending", timer |-> "none"]

\* a generateContent call raced against its timer
PendingCall(c) ==
    [prompt |-> c.prompt, message |-> c.message, state |-> "pending", timer |-> "armed"]

\* what the handler does once reviewDiff has said what comes next; settled
\* is calls[r] after the awaited race has settled
Continue(r, settled, next, durationMs) ==
    IF next.kind = "call"
    THEN /\ calls' = [calls EXCEPT ![r] = Append(settled, PendingCall(next))]
         /\ pc' = [pc EXCEPT ![r] = "awaiting"]
         /\ UNCHANGED <<resp, sent>>
    ELSE /\ calls' = [calls EXCEPT ![r] = settled]
         /\ pc' = [pc EXCEPT ![r] = "responded"]
         /\ resp' = [resp EXCEPT ![r] = handlerFinish(r, next, durationMs)]
         /\ sent' = [sent EXCEPT ![r] = @ + 1]

\* request bodies
Chars(n, c) == [i \in 1..n |-> c]
ShortDiff == <<"U0061">>
\* one byte longer than the limit, the cut falling inside U+00E9
LongDiff == Chars(MaxBytes - 1, "U0061") \o <<"U00E9">>

DiffField(text) == [present |-> TRUE, text |-> text]
NoDiffField == [present |-> FALSE, text |-> <<>>]
FilesField(items) == [present |-> TRUE, items |-> items]
NoFilesField == [present |-> FALSE, items |-> <<>>]

Body(repoId, diff, files) == [repoId |-> repoId, diff |-> diff, files |-> files]

PathX == <<"U0061">>

ValidBodies ==
    { Body(Str("repo"), DiffField(LongDiff), FilesField(<<PathX>>)) }

InvalidBodies ==
    { Body(Absent, DiffField(ShortDiff), FilesField(<<PathX>>)),
      Body(Str(""), DiffField(ShortDiff), FilesField(<<PathX>>)),
      Body(Str("repo"), NoDiffField, FilesField(<<PathX>>)),
      Body(Str("repo"), DiffField(<<>>), FilesField(<<PathX>>)),
      Body(Str("repo"), DiffField(ShortDiff), NoFilesField),
      Body(Str("repo"), DiffField(ShortDiff), FilesField(<<PathX, <<>>>>)) }

Bodies == ValidBodies \cup InvalidBodies

\* Date.now() - started
Durations == {0, 5}

ApiKeys == {"", "key"}

Init ==
    /\ ClientsOff
    /\ server = "starting"
    /\ config \in [geminiApiKey : ApiKeys, defaultMaxDiffBytes : {MaxBytes}]
    /\ pc = [r \in Reqs |-> "idle"]
    /\ body = [r \in Reqs |-> Body(Absent, NoDiffField, NoFilesField)]
    /\ calls = [r \in Reqs |-> <<>>]
    /\ resp = [r \in Reqs |-> [status |-> 0]]
    /\ sent = [r \in Reqs |-> 0]
    /\ tInput = <<>>
    /\ tMaxBytes = 0
    /\ tResult = <<>>
    /\ tPc = "idle"
    /\ schema = NotRunning
    /\ parse = NotRunning
    /\ hook = NotRunning
    /\ install = NotRunning

\* variant: the constructor does not look at the key
constructorThrows_Never(cfg) == FALSE

\* new GeminiProvider(): if (!config.geminiApiKey) throw
constructorThrows(cfg) == cfg.geminiApiKey = ""

\* module load: new GeminiProvider() throws without an API key, before app.listen
Start ==
    /\ server = "starting"
    /\ server' = IF constructorThrows(config) THEN "crashed" ELSE "listening"
    /\ UNCHANGED <<pc, body, calls, resp, sent, config>>
    /\ UNCHANGED besidesHandler

\* a POST /v1/review/diff arrives; the handler runs to its first await
Receive(r, b) ==
    /\ server = "listening"
    /\ pc[r] = "idle"
    /\ body' = [body EXCEPT ![r] = b]
    /\ IF ~reviewRequestSchema(b)
       THEN /\ resp' = [resp EXCEPT ![r] = handlerInvalidRequest(r)]
            /\ sent' = [sent EXCEPT ![r] = @ + 1]
            /\ pc' = [pc EXCEPT ![r] = "responded"]
            /\ UNCHANGED calls
       ELSE LET maxBytes == config.defaultMaxDiffBytes
                truncatedDiff == truncateByBytes(b.diff.text, maxBytes)
            IN  Continue(r, calls[r], reviewDiffStart(truncatedDiff, b.files.items), 0)
    /\ UNCHANGED <<server, config>>
    /\ UNCHANGED besidesHandler

Awaited(r) == calls[r][Len(calls[r])]

RECURSIVE CallsOfAll(_)
CallsOfAll(rs) ==
    IF rs = {} THEN 0
    ELSE LET r == CHOOSE x \in rs : TRUE
         IN  Len(calls[r]) + CallsOfAll(rs \ {r})

\* variant: the position is kept in the provider, which all requests share
Attempt_Shared(r) == CallsOfAll(Reqs)

\* which await of its own reviewDiff invocation request r is suspended at;
\* the position lives in the invocation, not in the provider
Attempt(r) == Len(calls[r])

Racing(r) ==
    /\ pc[r] = "awaiting"
    /\ Awaited(r).state = "pending"
    /\ Awaited(r).timer # "fired"

SettleLast(r, state, timer) ==
    [calls[r] EXCEPT ![Len(calls[r])] = [@ EXCEPT !.state = state, !.timer = timer]]

\* the model call resolves first: the race fulfils, finally clears the timer
Resolve(r, text, durationMs) ==
    /\ Racing(r)
    /\ LET n == Len(calls[r])
           settled == [calls[r] EXCEPT ![n] =
                          [prompt |-> @.prompt, message |-> @.message,
                           state |-> "resolved", timer |-> "cleared", text |-> text]]
       IN  Continue(r, settled, reviewDiffResume(Attempt(r), Fulfilled(text)), durationMs)
    /\ UNCHANGED <<server, config, body>>
    /\ UNCHANGED besidesHandler

\* the model call rejects first (connectivity, API error)
Reject(r) ==
    /\ Racing(r)
    /\ Continue(r, SettleLast(r, "rejected", "cleared"),
                reviewDiffResume(Attempt(r), Rejected("fetch failed")), 0)
    /\ UNCHANGED <<server, config, body>>
    /\ UNCHANGED besidesHandler

\* the timer fires first: the race rejects with the timeout message; the
\* model call itself stays pending
Timeout(r) ==
    /\ Racing(r)
    /\ Awaited(r).timer = "armed"
    /\ Continue(r, SettleLast(r, "pending", "fired"),
                reviewDiffResume(Attempt(r), Rejected(Awaited(r).message)), 0)
    /\ UNCHANGED <<server, config, body>>
    /\ UNCHANGED besidesHandler

\* variant: the late result is taken up as if the race were still on
LateSettle_Resumes(r) ==
    /\ \E i \in 1..Len(calls[r]), text \in Texts :
          /\ calls[r][i].state = "pending"
          /\ calls[r][i].timer = "fired"
          /\ Continue(r, [calls[r] EXCEPT ![i].state = "late"],
                      reviewDiffResume(i, Fulfilled(text)), 0)
    /\ UNCHANGED <<server, config, body>>
    /\ UNCHANGED besidesHandler

\* a model call whose race was lost to the timer settles later; nobody listens
LateSettle(r) ==
    /\ \E i \in 1..Len(calls[r]) :
          /\ calls[r][i].state = "pending"
          /\ calls[r][i].timer = "fired"
          /\ calls' = [calls EXCEPT ![r][i].state = "late"]
    /\ UNCHANGED <<server, config, body, pc, resp, sent>>
    /\ UNCHANGED besidesHandler

Next ==
    \/ Start
    \/ \E r \in Reqs, b \in Bodies : Receive(r, b)
    \/ \E r \in Reqs, text \in Texts, d \in Durations : Resolve(r, text, d)
    \/ \E r \in Reqs : Reject(r)
    \/ \E r \in Reqs : Timeout(r)
    \/ \E r \in Reqs : LateSettle(r)

Spec == Init /\ [][Next]_vars

\* an armed setTimeout fires once its delay has passed unless it was cleared
LiveSpec == Init /\ [][Next]_vars /\ \A r \in Reqs : WF_vars(Timeout(r))

\* the server process is not part of the run
ServerOff ==
    /\ server = "starting"
    /\ config = [geminiApiKey |-> "", defaultMaxDiffBytes |-> MaxBytes]
    /\ pc = [r \in Reqs |-> "idle"]
    /\ body = [r \in Reqs |-> Body(Absent, NoDiffField, NoFilesField)]
    /\ calls = [r \in Reqs |-> <<>>]
    /\ resp = [r \in Reqs |-> [status |-> 0]]
    /\ sent = [r \in Reqs |-> 0]

TruncOff ==
    /\ tInput = <<>>
    /\ tMaxBytes = 0
    /\ tResult = <<>>
    /\ tPc = "idle"

----------------------------------------------------------------------------
(* truncateByBytes applied to every bounded input *)

RECURSIVE StringsUpTo(_)
StringsUpTo(n) ==
    IF n = 0 THEN {<<>>}
    ELSE LET shorter == StringsUpTo(n - 1)
         IN  shorter \cup {Append(s, c) : s \in {x \in shorter : Len(x) = n - 1}, c \in InputChars}

TruncInputs == StringsUpTo(MaxLen)

TruncInit ==
    /\ ClientsOff
    /\ server = "starting"
    /\ config = [geminiApiKey |-> "", defaultMaxDiffBytes |-> MaxBytes]
    /\ pc = [r \in Reqs |-> "idle"]
    /\ body = [r \in Reqs |-> Body(Absent, NoDiffField, NoFilesField)]
    /\ calls = [r \in Reqs |-> <<>>]
    /\ resp = [r \in Reqs |-> [status |-> 0]]
    /\ sent = [r \in Reqs |-> 0]
    /\ schema = NotRunning
    /\ parse = NotRunning
    /\ hook = NotRunning
    /\ install = NotRunning
    /\ tInput \in TruncInputs
    /\ tMaxBytes \in 0..MaxBytes
    /\ tResult = <<>>
    /\ tPc = "init"

Truncate ==
    /\ tPc = "init"
    /\ tResult' = truncateByBytes(tInput, tMaxBytes)
    /\ tPc' = "done"
    /\ UNCHANGED <<tInput, tMaxBytes>>
    /\ UNCHANGED <<handlerVars, schema, parse, hook, install, clientVars>>

TruncNext == Truncate

TruncSpec == TruncInit /\ [][TruncNext]_vars

----------------------------------------------------------------------------
(* Properties of the review pipeline                                       *)

\* what the claims call a valid model response: strict JSON that satisfies
\* the response schema
ValidResponse(text) ==
    /\ ~JSONparseThrows(text)
    /\ reviewResponseSchema(JSONparse(text))

\* what the claims call a valid request body
ValidRequest(b) ==
    /\ b.repoId.k = "str" /\ b.repoId.s # ""
    /\ b.diff.present /\ b.diff.text # <<>>
    /\ b.files.present
    /\ \A i \in 1..Len(b.files.items) : b.files.items[i] # <<>>

NumCalls(r) == Len(calls[r])
Answered(r, i) == i \in 1..NumCalls(r) /\ calls[r][i].state = "resolved"
AnsweredValid(r, i) == Answered(r, i) /\ ValidResponse(calls[r][i].text)
AnsweredInvalid(r, i) == Answered(r, i) /\ ~ValidResponse(calls[r][i].text)
TimedOut(r, i) == i \in 1..NumCalls(r) /\ calls[r][i].timer = "fired"
CallRejected(r, i) == i \in 1..NumCalls(r) /\ calls[r][i].state = "rejected"
InFlight(r) == {i \in 1..NumCalls(r) : calls[r][i].state = "pending"}

\* C1: reviewDiff calls the model at most twice; when the repair response is
\* invalid too, the request has failed (502) and no third call exists.
C1_AtMostTwoModelCalls ==
    \A r \in Reqs :
        /\ NumCalls(r) <= 2
        /\ AnsweredInvalid(r, 2) =>
              /\ pc[r] = "responded"
              /\ resp[r].status = 502
              /\ NumCalls(r) = 2

C1_Witness ==
    \E r \in Reqs : AnsweredInvalid(r, 1) /\ AnsweredInvalid(r, 2) /\ resp[r].status = 502

\* C2: a repair call exists only once the first call has been answered with
\* an invalid response; at most one model call of a request is in flight; a
\* valid first response ends reviewDiff after exactly one call.
C2_RepairOnlyAfterInvalidFirst ==
    \A r \in Reqs :
        /\ NumCalls(r) >= 2 => AnsweredInvalid(r, 1)
        /\ Cardinality(InFlight(r)) <= 1
        /\ AnsweredValid(r, 1) => NumCalls(r) = 1 /\ pc[r] = "responded"

C2_Witness ==
    \E r1, r2 \in Reqs :
        /\ AnsweredValid(r1, 1) /\ pc[r1] = "responded"
        /\ NumCalls(r2) = 2 /\ InFlight(r2) = {2}

TimeoutMessage(i) ==
    IF i = 1 THEN "Gemini request timed out" ELSE "Gemini repair request timed out"

\* C3: a model call that timed out is the last call of its request, and the
\* request has failed with that call's timeout error.
C3_TimeoutIsFatal ==
    \A r \in Reqs : \A i \in 1..NumCalls(r) :
        TimedOut(r, i) =>
            /\ i = NumCalls(r)
            /\ pc[r] = "responded"
            /\ resp[r].status = 502
            /\ resp[r].message = TimeoutMessage(i)

C3_Witness ==
    \E r1, r2 \in Reqs :
        /\ TimedOut(r1, 1) /\ resp[r1].status = 502
        /\ TimedOut(r2, 2) /\ resp[r2].status = 502

\* the review pipeline of r has failed: the last call timed out or was
\* rejected, or both responses were invalid
PipelineFailed(r) ==
    \/ TimedOut(r, NumCalls(r))
    \/ CallRejected(r, NumCalls(r))
    \/ AnsweredInvalid(r, 1) /\ AnsweredInvalid(r, 2)

\* C4: a valid request whose review pipeline failed is answered 502.
C4_PipelineFailureIs502 ==
    \A r \in Reqs :
        ValidRequest(body[r]) /\ PipelineFailed(r) =>
            pc[r] = "responded" /\ resp[r].status = 502

C4_Witness ==
    \E r1, r2 \in Reqs :
        /\ CallRejected(r1, 1) /\ resp[r1].status = 502
        /\ CallRejected(r2, 2) /\ resp[r2].status = 502

\* C5: a 200 response carries the findings of the response that passed
\* validation: the first one, or the repair one after an invalid first.
C5_FindingsOfAcceptedResponse ==
    \A r \in Reqs :
        resp[r].status = 200 =>
            LET n == NumCalls(r) IN
            /\ AnsweredValid(r, n)
            /\ resp[r].findings = JSONparse(calls[r][n].text).findings
            /\ n = 2 => AnsweredInvalid(r, 1)

C5_Witness ==
    \E r \in Reqs :
        /\ resp[r].status = 200
        /\ NumCalls(r) = 2
        /\ JSONparse(calls[r][1].text).findings # resp[r].findings
        /\ resp[r].findings # <<>>

\* C6: a request body that fails request validation is answered 400 with an
\* error field and causes no model call.
C6_InvalidRequestIs400 ==
    \A r \in Reqs :
        pc[r] # "idle" /\ ~ValidRequest(body[r]) =>
            /\ pc[r] = "responded"
            /\ resp[r].status = 400
            /\ resp[r].error = "Invalid request"
            /\ NumCalls(r) = 0

C6_Witness ==
    \E r1, r2 \in Reqs :
        /\ resp[r1].status = 400 /\ ~body[r1].diff.present
        /\ resp[r2].status = 400 /\ body[r2].files.present
        /\ \E i \in 1..Len(body[r2].files.items) : body[r2].files.items[i] = <<>>

\* C7: the prompt of the repair call ends with the raw text of the first
\* response, whitespace included.
C7_RepairPromptEmbedsFirstText ==
    \A r \in Reqs :
        NumCalls(r) >= 2 =>
            LET prompt == calls[r][2].prompt IN
            /\ prompt.kind = "repair"
            /\ prompt.parts[Len(prompt.parts)] = calls[r][1].text

C7_Witness ==
    \E r \in Reqs :
        /\ NumCalls(r) = 2
        /\ calls[r][1].text.ws
        /\ calls[r][1].text # trim(calls[r][1].text)

\* lists of schema-valid findings, for buildSummary on its own
FSugg == Finding(Str("z"), Num(1), Num(2), Str("suggestion"), Str("s"))
ValidFindings == {FWarn, FCrit, FNit, FSugg}

RECURSIVE ListsUpTo(_)
ListsUpTo(n) ==
    IF n = 0 THEN {<<>>}
    ELSE LET shorter == ListsUpTo(n - 1)
         IN  shorter \cup {Append(l, f) : l \in {x \in shorter : Len(x) = n - 1}, f \in ValidFindings}

FindingLists == ListsUpTo(MaxFindings)

RECURSIVE SumOver(_, _)
SumOver(f, keys) ==
    IF keys = {} THEN 0
    ELSE LET key == CHOOSE x \in keys : TRUE
         IN  f[key] + SumOver(f, keys \ {key})

\* summary is what the claim promises for findings
SummaryMatches(findings, summary) ==
    /\ summary.totalFindings = Len(findings)
    /\ Severities \subseteq DOMAIN summary.bySeverity
    /\ \A sev \in Severities :
          (\A i \in 1..Len(findings) : findings[i].severity.s # sev)
              => summary.bySeverity[sev] = 0
    /\ SumOver(summary.bySeverity, Severities) = summary.totalFindings

BuildSummaryContract ==
    \A findings \in FindingLists, d \in Durations :
        SummaryMatches(findings, buildSummary(findings, d))

\* C8: buildSummary counts every list of valid findings: totalFindings is
\* the length, the four severities are present (0 when unused) and add up to
\* totalFindings; the summary of every 200 response matches its findings.
C8_SummaryMatchesFindings ==
    /\ BuildSummaryContract
    /\ \A r \in Reqs :
          resp[r].status = 200 => SummaryMatches(resp[r].findings, resp[r].summary)

C8_Witness ==
    \E r \in Reqs :
        /\ resp[r].status = 200
        /\ Len(resp[r].findings) = 3
        /\ resp[r].summary.bySeverity["nit"] = 2
        /\ resp[r].summary.bySeverity["warning"] = 0

\* the model response reviewDiff accepted for r
AcceptedText(r) == calls[r][NumCalls(r)].text

\* C9: two 200 responses whose accepted model responses have the same
\* findings have the same findings, totalFindings and bySeverity, whatever
\* summaries the model supplied.
C9_SummaryIgnoresModelSummary ==
    \A r1, r2 \in Reqs :
        /\ resp[r1].status = 200
        /\ resp[r2].status = 200
        /\ JSONparse(AcceptedText(r1)).findings = JSONparse(AcceptedText(r2)).findings
        => /\ resp[r1].findings = resp[r2].findings
           /\ resp[r1].summary.totalFindings = resp[r2].summary.totalFindings
           /\ resp[r1].summary.bySeverity = resp[r2].summary.bySeverity

C9_Witness ==
    \E r1, r2 \in Reqs :
        /\ resp[r1].status = 200
        /\ resp[r2].status = 200
        /\ JSONparse(AcceptedText(r1)).findings = JSONparse(AcceptedText(r2)).findings
        /\ JSONparse(AcceptedText(r1)).summary # JSONparse(AcceptedText(r2)).summary
        /\ ~SummaryMatches(JSONparse(AcceptedText(r2)).findings,
                           [totalFindings |-> JSONparse(AcceptedText(r2)).summary.totalFindings.n,
                            bySeverity |-> [k \in Severities |->
                                JSONparse(AcceptedText(r2)).summary.bySeverity[k].n]])

\* C15: with the model API key absent or empty the provider's constructor
\* throws while the process starts, before the server listens: no request
\* is ever received, no model call made and no response sent.
C15_MissingKeyIsFatalAtStartup ==
    config.geminiApiKey = "" =>
        /\ server \in {"starting", "crashed"}
        /\ \A r \in Reqs :
              /\ pc[r] = "idle"
              /\ calls[r] = <<>>
              /\ resp[r].status = 0
              /\ sent[r] = 0

C15_Witness == config.geminiApiKey = "" /\ server = "crashed"

\* where the reviewDiff invocation of request r stands; a request answered
\* 400 never invoked it
Phase(r) ==
    IF pc[r] = "idle" THEN "Idle"
    ELSE IF pc[r] = "awaiting" THEN (IF NumCalls(r) = 1 THEN "Requesting1" ELSE "Requesting2")
    ELSE IF resp[r].status = 400 THEN "Idle"
    ELSE IF resp[r].status = 502 /\ resp[r].error = "Failed to review diff" THEN "Failed"
    ELSE "Done"

\* the transitions the protocol names; Validating1 and Validating2 run
\* inside the step that receives the response
NamedTransition(r) ==
    LET from == Phase(r)
        to == Phase(r)'
    IN  \/ from = "Idle" /\ to = "Requesting1"
        \/ from = "Requesting1" /\ to = "Done" /\ AnsweredValid(r, 1)'
        \/ from = "Requesting1" /\ to = "Requesting2" /\ AnsweredInvalid(r, 1)'
        \/ from = "Requesting2" /\ to = "Done" /\ AnsweredValid(r, 2)'
        \/ from = "Requesting2" /\ to = "Failed" /\ AnsweredInvalid(r, 2)'

TimeoutTransition(r) ==
    /\ Phase(r) \in {"Requesting1", "Requesting2"}
    /\ Phase(r)' = "Failed"
    /\ TimedOut(r, NumCalls(r))'

RejectionTransition(r) ==
    /\ Phase(r) \in {"Requesting1", "Requesting2"}
    /\ Phase(r)' = "Failed"
    /\ CallRejected(r, NumCalls(r))'

\* the invocation does not stay in Requesting1 or Requesting2 for ever; as
\* the transitions leave these two only towards Done or Failed, which are
\* never left, it ends in Done or Failed
EventuallySettled(r) ==
    []<>(Phase(r) \notin {"Requesting1", "Requesting2"})

\* C16 as stated: every reviewDiff invocation eventually reaches Done or
\* Failed, and moves only along Idle, Requesting1, Validating1, Done or
\* Requesting2, Validating2, Done or Failed, plus Failed from a timed-out
\* request.
C16_OnlyNamedTransitionsOrTimeout ==
    /\ [][\A r \in Reqs :
            Phase(r)' # Phase(r) => NamedTransition(r) \/ TimeoutTransition(r)]_vars
    /\ \A r \in Reqs : EventuallySettled(r)

\* C16, amended: every reviewDiff invocation eventually reaches Done or
\* Failed, even if the model never answers, and moves only along the named
\* transitions, plus Failed from a request that timed out or whose model
\* call was rejected.
C16_ReviewDiffTerminates ==
    /\ [][\A r \in Reqs :
            Phase(r)' # Phase(r) =>
                NamedTransition(r) \/ TimeoutTransition(r) \/ RejectionTransition(r)]_vars
    /\ \A r \in Reqs : EventuallySettled(r)

C16_Witness ==
    \E r \in Reqs :
        /\ Phase(r) = "Failed"
        /\ AnsweredInvalid(r, 1)
        /\ TimedOut(r, 2)
        /\ calls[r][2].state = "pending"

\* what a request with body b and model calls cs comes to when nothing else
\* runs beside it: the calls it has made (n), whether it has been answered,
\* and with what
StillRunning(n) == [done |-> FALSE, n |-> n, status |-> 0, findings |-> <<>>]
AnsweredWith(n, status, findings) ==
    [done |-> TRUE, n |-> n, status |-> status, findings |-> findings]
CallPending(c) == c.state = "pending" /\ c.timer # "fired"
CallAnswered(c) == c.state = "resolved"

Alone(b, cs) ==
    IF ~ValidRequest(b) THEN AnsweredWith(0, 400, <<>>)
    ELSE IF Len(cs) < 1 THEN StillRunning(1)
    ELSE IF CallPending(cs[1]) THEN StillRunning(1)
    ELSE IF ~CallAnswered(cs[1]) THEN AnsweredWith(1, 502, <<>>)
    ELSE IF ValidResponse(cs[1].text)
         THEN AnsweredWith(1, 200, JSONparse(cs[1].text).findings)
    ELSE IF Len(cs) < 2 THEN StillRunning(2)
    ELSE IF CallPending(cs[2]) THEN StillRunning(2)
    ELSE IF ~CallAnswered(cs[2]) THEN AnsweredWith(2, 502, <<>>)
    ELSE IF ValidResponse(cs[2].text)
         THEN AnsweredWith(2, 200, JSONparse(cs[2].text).findings)
    ELSE AnsweredWith(2, 502, <<>>)

\* C17: concurrent requests do not interfere: under every interleaving each
\* request's status code and findings are those its own body and its own
\* model responses give, and it makes at most two model calls.
C17_RequestsDoNotInterfere ==
    \A r \in Reqs :
        pc[r] # "idle" =>
            LET alone == Alone(body[r], calls[r]) IN
            /\ NumCalls(r) = alone.n
            /\ NumCalls(r) <= 2
            /\ (pc[r] = "responded") = alone.done
            /\ alone.done =>
                  /\ resp[r].status = alone.status
                  /\ resp[r].requestId = r
                  /\ alone.status = 200 => resp[r].findings = alone.findings

C17_Witness ==
    \E r1, r2 \in Reqs :
        /\ r1 # r2
        /\ pc[r1] = "responded" /\ resp[r1].status = 200 /\ NumCalls(r1) = 2
        /\ resp[r1].findings # <<>>
        /\ pc[r2] = "awaiting" /\ NumCalls(r2) = 2
        /\ calls[r2][1].text # calls[r1][1].text

\* C20: a model call that timed out is not cancelled (it stays in flight or
\* completes late) and a late completion changes nothing: the request stays
\* answered with the timeout failure, no repair call follows the timed-out
\* call, and exactly one HTTP response is sent.
C20_LateResultIsDiscarded ==
    \A r \in Reqs :
        /\ sent[r] = (IF pc[r] = "responded" THEN 1 ELSE 0)
        /\ \A i \in 1..NumCalls(r) :
              calls[r][i].timer = "fired" =>
                  /\ calls[r][i].state \in {"pending", "late"}
                  /\ NumCalls(r) = i
                  /\ resp[r] = [status |-> 502, requestId |-> r,
                                error |-> "Failed to review diff",
                                message |-> TimeoutMessage(i)]

C20_Witness ==
    \E r \in Reqs :
        /\ NumCalls(r) = 2
        /\ calls[r][2].timer = "fired"
        /\ calls[r][2].state = "late"
        /\ resp[r].status = 502
        /\ sent[r] = 1

----------------------------------------------------------------------------
(* Properties of truncateByBytes                                           *)

\* C10: an input longer than maxBytes is truncated to at most maxBytes
\* bytes of UTF-8.
C10_TruncatedWithinLimit ==
    tPc = "done" /\ byteLength(tInput) > tMaxBytes
        => byteLength(tResult) <= tMaxBytes

\* bytes of UTF-8 the characters of s take
RECURSIVE Utf8Length(_)
Utf8Length(s) == IF s = <<>> THEN 0 ELSE Width(Head(s)) + Utf8Length(Tail(s))

\* C11: an input of at most maxBytes bytes of UTF-8 is returned unchanged.
C11_ShortInputUnchanged ==
    tPc = "done" /\ Utf8Length(tInput) <= tMaxBytes => tResult = tInput

C11_Witness ==
    /\ tPc = "done"
    /\ Utf8Length(tInput) = tMaxBytes
    /\ tInput = <<"U0061", "UD800">>
    /\ tResult = tInput

----------------------------------------------------------------------------
(* The schema validator applied to every bounded finding and summary *)

SchemaStrings == {Str("x"), Str(""), Absent}
SchemaLines == {Num(0), Num(1), Num(2), Frac(1), Absent}
SchemaSeverities == {Str(s) : s \in Severities} \cup {Str("blocker"), Absent}
SchemaTexts == {Str("t"), Str("")}
SchemaPatches == {Absent, Str("p"), Num(1)}

SchemaFindings ==
    { [file |-> file, lineStart |-> lineStart, lineEnd |-> lineEnd,
       severity |-> severity, title |-> title, message |-> message,
       rationale |-> rationale, patch |-> patch] :
        file \in SchemaStrings, lineStart \in SchemaLines \ {Absent},
        lineEnd \in SchemaLines, severity \in SchemaSeverities,
        title \in SchemaTexts, message \in SchemaTexts,
        rationale \in SchemaTexts, patch \in SchemaPatches }

SchemaSummaries ==
    { SummaryJson(Num(2), Counts(0, 0, 1, 1), Num(0)),
      SummaryJson(Num(2), Counts(0, 0, 2, -1), Num(5)),
      SummaryJson(Frac(1), Counts(0, 0, 1, 1), Num(5)),
      NoSummaryJson }

SchemaInit ==
    /\ ClientsOff
    /\ ServerOff
    /\ TruncOff
    /\ parse = NotRunning
    /\ hook = NotRunning
    /\ install = NotRunning
    /\ \E f \in SchemaFindings, s \in SchemaSummaries :
          schema = [pc |-> "init", finding |-> f, summary |-> s,
                    findingOk |-> FALSE, responseOk |-> FALSE]

\* findingSchema.safeParse(finding).success and
\* reviewResponseSchema.safeParse({findings: [.., finding], summary}).success
Validate ==
    /\ schema.pc = "init"
    /\ schema' = [schema EXCEPT
          !.pc = "done",
          !.findingOk = findingSchema(schema.finding),
          !.responseOk = reviewResponseSchema(
                              Json(<<FCrit, schema.finding>>, schema.summary))]
    /\ UNCHANGED <<handlerVars, truncVars, parse, hook, install, clientVars>>

SchemaNext == Validate

SchemaSpec == SchemaInit /\ [][SchemaNext]_vars

----------------------------------------------------------------------------
(* Properties of the schema validator *)

NonEmptyString(v) == v.k = "str" /\ v.s # ""
IntegerAtLeast(v, min) == v.k = "num" /\ v.n >= min

\* the finding the claim describes
GoodFinding(f) ==
    /\ \A v \in {f.file, f.title, f.message, f.rationale} : NonEmptyString(v)
    /\ IntegerAtLeast(f.lineStart, 1)
    /\ IntegerAtLeast(f.lineEnd, 1)
    /\ ~(f.lineEnd.n < f.lineStart.n)
    /\ f.severity \in {Str("nit"), Str("suggestion"), Str("warning"), Str("critical")}
    /\ f.patch.k \in {"absent", "str"}

GoodSummary(s) ==
    /\ s.present
    /\ IntegerAtLeast(s.totalFindings, 0)
    /\ IntegerAtLeast(s.durationMs, 0)
    /\ \A key \in DOMAIN s.bySeverity : IntegerAtLeast(s.bySeverity[key], 0)

\* C12: the validator accepts a finding exactly when its four texts are
\* non-empty strings, both lines are integers >= 1 with lineEnd >= lineStart,
\* the severity is one of the four, and patch is absent or a string; a
\* response of such findings with a summary of non-negative integer counts
\* is accepted.
C12_FindingAcceptedExactlyWhenGood ==
    schema.pc = "done" =>
        /\ schema.findingOk = GoodFinding(schema.finding)
        /\ GoodFinding(schema.finding) /\ GoodSummary(schema.summary)
              => schema.responseOk

C12_Witness ==
    /\ schema.pc = "done"
    /\ schema.finding.lineEnd = schema.finding.lineStart
    /\ schema.finding.patch = Str("p")
    /\ schema.findingOk
    /\ schema.responseOk

----------------------------------------------------------------------------
(* The pre-commit hook: main(), cut at its awaits (the prompt, the fetch,  *)
(* response.json()).  Every piece maps the hook's state and what the       *)
(* environment delivered to the hook's next state.                         *)

MaxHookFindings == 2

\* findings.slice(0, 5)
TopFindings == 5

\* values of SAFECOMMIT_FAIL_ON_SEVERITY; "" is the variable unset
ThresholdEnvs == Severities \cup {"", "high"}

HookAnswers == {"", "y", "Y", "yes", "Yes", "n", "later"}

toLowerCase(s) ==
    CASE s = "Y" -> "y"
      [] s = "Yes" -> "yes"
      [] OTHER -> s

\* what execSync gives back: it throws, or returns the command's output
Threw == [ok |-> FALSE, out |-> <<>>]
Output(out) == [ok |-> TRUE, out |-> out]

Newline == "U000A"

\* git diff --cached --unified=3
DiffOutputs ==
    {Threw, Output(<<>>), Output(<<Newline>>), Output(ShortDiff), Output(LongDiff)}

\* git diff --cached --name-only, as lines
NameOutputs == {Threw, Output(<<PathX, <<>>>>), Output(<<>>)}

\* !diff.trim()
trimIsEmpty(text) == \A i \in 1..Len(text) : text[i] = Newline

\* filesOutput.split(/\r?\n/).map(trim).filter(Boolean)
RECURSIVE filterBoolean(_)
filterBoolean(lines) ==
    IF lines = <<>> THEN <<>>
    ELSE (IF Head(lines) = <<>> THEN <<>> ELSE <<Head(lines)>>)
         \o filterBoolean(Tail(lines))

hookTruncateByBytes(input, maxBytes) ==
    LET buf == BufferFrom(input)
    IN  IF Len(buf) <= maxBytes THEN input
        ELSE toString(subarray(buf, maxBytes))

\* JSON the hook may read: the document is null or an object; its findings
\* key is absent, a string or an array; an element is null or an object
\* with a severity
JNull == [k |-> "null", severity |-> Absent]
JFinding(severity) == [k |-> "object", severity |-> severity]
JElements ==
    {JNull, JFinding(Absent), JFinding(Str("blocker"))}
        \cup {JFinding(Str(s)) : s \in Severities}

RECURSIVE JArrays(_)
JArrays(n) ==
    IF n = 0 THEN {<<>>}
    ELSE LET shorter == JArrays(n - 1)
         IN  shorter \cup {Append(a, e) : a \in {x \in shorter : Len(x) = n - 1},
                                          e \in JElements}

JData(k, findingsKind, items) ==
    [k |-> k, findings |-> [k |-> findingsKind, items |-> items]]

HookDocuments ==
    {JData("null", "absent", <<>>), JData("object", "absent", <<>>),
     JData("object", "string", <<>>)}
        \cup {JData("object", "array", a) : a \in JArrays(MaxHookFindings)}

\* what response.json() meets: a body that is not JSON, or a document
HookBodies ==
    {[json |-> FALSE, value |-> JData("null", "absent", <<>>)]}
        \cup {[json |-> TRUE, value |-> d] : d \in HookDocuments}

\* what fetch settles with: rejected, or a response with its ok flag
HookResponses == {"rejected", "notOk", "ok"}

\* variant: the comparison written with > instead of >=
severityAtOrAbove_Strict(sev, threshold) ==
    LET order == [s \in Severities |->
                     CASE s = "nit" -> 0 [] s = "suggestion" -> 1
                       [] s = "warning" -> 2 [] s = "critical" -> 3]
    IN  /\ sev.k = "str"
        /\ sev.s \in DOMAIN order
        /\ threshold \in DOMAIN order
        /\ order[sev.s] > order[threshold]

\* order[sev] >= order[threshold]; a comparison with undefined is false
severityAtOrAbove(sev, threshold) ==
    LET order == [s \in Severities |->
                     CASE s = "nit" -> 0 [] s = "suggestion" -> 1
                       [] s = "warning" -> 2 [] s = "critical" -> 3]
    IN  /\ sev.k = "str"
        /\ sev.s \in DOMAIN order
        /\ threshold \in DOMAIN order
        /\ order[sev.s] >= order[threshold]

\* process.exit(code), or main() returning (code 0)
hookExit(h, code) == [h EXCEPT !.pc = "exited", !.exit = code]

NoRequest == [diff |-> <<>>, files |-> <<>>]
NoBody == [json |-> FALSE, value |-> JData("null", "absent", <<>>)]

hookStart(h, isRepo) ==
    IF ~isRepo THEN hookExit(h, 0) ELSE [h EXCEPT !.pc = "prompting"]

hookAfterPrompt(h, answer, diffOut, namesOut) ==
    LET reply == toLowerCase(IF answer = "" THEN "Y" ELSE answer)
    IN  IF reply # "y" /\ reply # "yes" THEN hookExit(h, 0)
        ELSE IF ~diffOut.ok THEN hookExit(h, 0)
        ELSE IF trimIsEmpty(diffOut.out) THEN hookExit(h, 0)
        ELSE IF ~namesOut.ok THEN hookExit(h, 0)
        ELSE [h EXCEPT
                !.pc = "fetching",
                !.request = [diff |-> hookTruncateByBytes(diffOut.out, h.maxDiffBytes),
                             files |-> filterBoolean(namesOut.out)]]

\* variant: an unavailable backend blocks the commit
hookAfterFetch_BlockWhenUnavailable(h, response) ==
    IF response = "rejected" \/ response # "ok"
    THEN hookExit([h EXCEPT !.response = response], 1)
    ELSE [h EXCEPT !.pc = "parsing", !.response = response]

hookAfterFetch(h, response) ==
    IF response = "rejected" \/ response # "ok"
    THEN hookExit([h EXCEPT !.response = response], 0)
    ELSE [h EXCEPT !.pc = "parsing", !.response = response]

\* the loop over findings.slice(0, 5) reads f.severity of every element
printThrows(findings) ==
    \E i \in 1..Len(findings) : i <= TopFindings /\ findings[i].k = "null"

\* findings.some((f) => severityAtOrAbove(f.severity, threshold))
RECURSIVE some(_, _)
some(findings, threshold) ==
    IF findings = <<>> THEN "false"
    ELSE IF Head(findings).k = "null" THEN "throws"
    ELSE IF severityAtOrAbove(Head(findings).severity, threshold) THEN "true"
    ELSE some(Tail(findings), threshold)

hookAfterJson(h, payload) ==
    LET got == [h EXCEPT !.body = payload]
        data == payload.value
        findings == IF data.findings.k = "array" THEN data.findings.items ELSE <<>>
    IN  IF ~payload.json THEN hookExit(got, 0)
        ELSE IF data.k = "null" THEN hookExit(got, 0)
        ELSE IF printThrows(findings) THEN hookExit(got, 0)
        ELSE IF some(findings, h.failOnSeverity) = "true" THEN hookExit(got, 1)
        ELSE hookExit(got, 0)

HookInit ==
    /\ ClientsOff
    /\ ServerOff
    /\ TruncOff
    /\ schema = NotRunning
    /\ parse = NotRunning
    /\ install = NotRunning
    /\ \E env \in ThresholdEnvs :
          hook = [pc |-> "start", env |-> env,
                  failOnSeverity |-> IF env = "" THEN "critical" ELSE env,
                  maxDiffBytes |-> MaxBytes,
                  request |-> NoRequest, response |-> "none", body |-> NoBody,
                  exit |-> -1]

besidesHook == <<handlerVars, truncVars, schema, parse, install, clientVars>>

HookStart ==
    /\ hook.pc = "start"
    /\ \E isRepo \in BOOLEAN : hook' = hookStart(hook, isRepo)
    /\ UNCHANGED besidesHook

HookAnswered ==
    /\ hook.pc = "prompting"
    /\ \E answer \in HookAnswers, diffOut \in DiffOutputs, namesOut \in NameOutputs :
          hook' = hookAfterPrompt(hook, answer, diffOut, namesOut)
    /\ UNCHANGED besidesHook

HookFetched ==
    /\ hook.pc = "fetching"
    /\ \E response \in HookResponses : hook' = hookAfterFetch(hook, response)
    /\ UNCHANGED besidesHook

HookParsed ==
    /\ hook.pc = "parsing"
    /\ \E payload \in HookBodies : hook' = hookAfterJson(hook, payload)
    /\ UNCHANGED besidesHook

HookNext == HookStart \/ HookAnswered \/ HookFetched \/ HookParsed

HookSpec == HookInit /\ [][HookNext]_vars

----------------------------------------------------------------------------
(* Properties of the pre-commit hook *)

\* nit < suggestion < warning < critical
Rank(s) ==
    CASE s = "nit" -> 1 [] s = "suggestion" -> 2 [] s = "warning" -> 3
      [] s = "critical" -> 4 [] OTHER -> 0

\* the findings a parsed response returned
Returned(h) ==
    IF h.body.json /\ h.body.value.k = "object" /\ h.body.value.findings.k = "array"
    THEN h.body.value.findings.items
    ELSE <<>>

\* the response was read as JSON and every finding in it is an object
GotResponse(h) ==
    /\ h.pc = "exited"
    /\ h.response = "ok"
    /\ h.body.json
    /\ \A i \in 1..Len(Returned(h)) : Returned(h)[i].k = "object"

SomeAtOrAbove(h, threshold) ==
    \E i \in 1..Len(Returned(h)) :
        /\ Returned(h)[i].k = "object"
        /\ Returned(h)[i].severity.k = "str"
        /\ Rank(Returned(h)[i].severity.s) >= 1
        /\ Rank(Returned(h)[i].severity.s) >= Rank(threshold)

\* C13: for every configured threshold of the ordering and every response
\* of the backend, the hook exits non-zero exactly when some returned
\* finding is at or above the threshold; with no threshold configured only
\* a critical finding blocks.
C13_BlocksExactlyAtOrAboveThreshold ==
    GotResponse(hook) =>
        /\ hook.env \in {"nit", "suggestion", "warning", "critical"}
              => (hook.exit # 0 <=> SomeAtOrAbove(hook, hook.env))
        /\ hook.env = ""
              => (hook.exit # 0 <=> SomeAtOrAbove(hook, "critical"))

C13_Witness ==
    /\ GotResponse(hook)
    /\ hook.env = "warning"
    /\ Returned(hook) = <<JFinding(Str("suggestion")), JFinding(Str("warning"))>>
    /\ hook.exit = 1

\* C14: when the backend is unreachable, answers with a non-success status
\* or sends a body that is not JSON, the hook exits 0; the hook exits
\* non-zero only on a finding at or above the threshold in a response it
\* read.
C14_InfrastructureFailureExitsZero ==
    hook.pc = "exited" =>
        /\ hook.response \in {"rejected", "notOk"} => hook.exit = 0
        /\ hook.response = "ok" /\ ~hook.body.json => hook.exit = 0
        /\ hook.exit # 0 =>
              /\ hook.response = "ok"
              /\ hook.body.json
              /\ SomeAtOrAbove(hook, hook.failOnSeverity)

C14_Witness ==
    /\ hook.pc = "exited"
    /\ hook.response = "rejected"
    /\ hook.request.diff # <<>>
    /\ hook.exit = 0

----------------------------------------------------------------------------
(* Hook installation by the extension: installHook (the command) and       *)
(* autoInstallHook (on activation), both through installHookFiles.  A file  *)
(* is missing or has a content: a sequence of units, where BOM is the byte  *)
(* order mark, CR and LF the two line-end characters and x any other text.  *)

MaxFileLen == 2

FileUnits == {"BOM", "CR", "LF", "x"}

RECURSIVE ContentsUpTo(_)
ContentsUpTo(n) ==
    IF n = 0 THEN {<<>>}
    ELSE LET shorter == ContentsUpTo(n - 1)
         IN  shorter \cup {Append(s, u) : s \in {x \in shorter : Len(x) = n - 1},
                                          u \in FileUnits}

Missing == [exists |-> FALSE, content |-> <<>>, mode |-> "none"]
File(content, mode) == [exists |-> TRUE, content |-> content, mode |-> mode]

\* content.replace(/\r\n/g, "\n")
RECURSIVE replaceCRLF(_)
replaceCRLF(content) ==
    IF Len(content) >= 2 /\ content[1] = "CR" /\ content[2] = "LF"
    THEN <<"LF">> \o replaceCRLF(SubSeq(content, 3, Len(content)))
    ELSE IF content = <<>> THEN <<>>
    ELSE <<Head(content)>> \o replaceCRLF(Tail(content))

\* content.replace(/^\uFEFF/, "")
stripBOM(content) ==
    IF content # <<>> /\ Head(content) = "BOM" THEN Tail(content) ELSE content

readNormalizedFile(content) == replaceCRLF(stripBOM(content))

\* the file starts with EF BB BF, or holds a 0x0d anywhere
fileNeedsNormalization(content) ==
    \/ content # <<>> /\ Head(content) = "BOM"
    \/ \E i \in 1..Len(content) : content[i] = "CR"

\* the hooks bundled with the extension, as they lie on disk
BashSources == {<<"x">>, <<"CR", "LF">>}
NodeSources == {<<"x", "LF">>, <<"BOM", "x">>}

\* the I/O call of installHookFiles that fails, if any
FailPoints == {"none", "read", "mkdir", "writeBash", "writeNode", "chmod"}

Workspaces == {"noFolder", "noRepo", "repo"}
Platforms == {"win32", "linux"}

\* fs.promises.writeFile: the content is replaced, an existing file keeps its mode
writeFile(file, content) ==
    File(content, IF file.exists THEN file.mode ELSE "0644")

chmod(file, mode) == [file EXCEPT !.mode = mode]

Installed(result, bash, node) ==
    [result |-> result, bashTarget |-> bash, nodeTarget |-> node]

\* installHookFiles: what it returns (true, false, throws) and the two
\* target files it leaves
installHookFiles(i, failAt) ==
    LET bashSourceContent == readNormalizedFile(i.bashSource)
        nodeSourceContent == readNormalizedFile(i.nodeSource)
        bashExists == i.bashTarget.exists
        nodeExists == i.nodeTarget.exists
        matches == /\ readNormalizedFile(i.bashTarget.content) = bashSourceContent
                   /\ readNormalizedFile(i.nodeTarget.content) = nodeSourceContent
        bashWritten == writeFile(i.bashTarget, bashSourceContent)
        nodeWritten == writeFile(i.nodeTarget, nodeSourceContent)
    IN  IF failAt = "read" THEN Installed("throws", i.bashTarget, i.nodeTarget)
        ELSE IF bashExists /\ nodeExists /\ ~matches
             THEN Installed("false", i.bashTarget, i.nodeTarget)
        ELSE IF /\ bashExists /\ nodeExists
                /\ ~fileNeedsNormalization(i.bashTarget.content)
                /\ ~fileNeedsNormalization(i.nodeTarget.content)
             THEN Installed("false", i.bashTarget, i.nodeTarget)
        ELSE IF failAt \in {"mkdir", "writeBash"}
             THEN Installed("throws", i.bashTarget, i.nodeTarget)
        ELSE IF failAt = "writeNode"
             THEN Installed("throws", bashWritten, i.nodeTarget)
        ELSE IF i.platform = "win32"
             THEN Installed("true", bashWritten, nodeWritten)
        ELSE IF failAt = "chmod"
             THEN Installed("throws", bashWritten, nodeWritten)
        ELSE Installed("true", chmod(bashWritten, "0755"), chmod(nodeWritten, "0755"))

Message(level, text) == [level |-> level, text |-> text]
NoMessage == Message("none", "")

\* the command SafeCommit: Install Pre-Commit Hook
installHook(i, failAt) ==
    IF i.workspace = "noFolder"
    THEN [i EXCEPT !.pc = "done", !.command = "manual",
                   !.message = Message("error", "No workspace folder is open.")]
    ELSE IF i.workspace = "noRepo"
    THEN [i EXCEPT !.pc = "done", !.command = "manual",
                   !.message = Message("error", "Unable to find a git repository.")]
    ELSE LET done == installHookFiles(i, failAt)
         IN  [i EXCEPT
                !.pc = "done", !.command = "manual",
                !.bashTarget = done.bashTarget,
                !.nodeTarget = done.nodeTarget,
                !.result = done.result,
                !.message =
                    CASE done.result = "true" ->
                            Message("info", "Pre-commit hooks installed.")
                      [] done.result = "false" ->
                            Message("info", "Pre-commit hooks already present.")
                      [] OTHER -> Message("error", "Failed to install hook.")]

\* activation, with the setting safecommit.autoInstallHook
autoInstallHook(i, failAt) ==
    IF ~i.autoInstall \/ i.workspace # "repo"
    THEN [i EXCEPT !.pc = "done", !.command = "auto"]
    ELSE LET done == installHookFiles(i, failAt)
         IN  [i EXCEPT
                !.pc = "done", !.command = "auto",
                !.bashTarget = done.bashTarget,
                !.nodeTarget = done.nodeTarget,
                !.result = done.result,
                !.message = IF done.result = "throws"
                            THEN Message("warning", "Auto hook install failed.")
                            ELSE NoMessage]

\* the second target is missing, holds the bundled hook as it lies on disk
\* or normalized, or holds something else
NodeTargets(nodeSource) ==
    {Missing, File(nodeSource, "0644"), File(readNormalizedFile(nodeSource), "0755"),
     File(<<"x">>, "0755")}

InstallInit ==
    /\ ClientsOff
    /\ ServerOff
    /\ TruncOff
    /\ schema = NotRunning
    /\ parse = NotRunning
    /\ hook = NotRunning
    /\ \E workspace \in Workspaces, platform \in Platforms, autoInstall \in BOOLEAN,
          bashSource \in BashSources, nodeSource \in NodeSources,
          bashContent \in ContentsUpTo(MaxFileLen), bashExists \in BOOLEAN :
          \E nodeTarget \in NodeTargets(nodeSource) :
             /\ bashExists \/ bashContent = <<>>
             /\ workspace = "repo" \/ (~bashExists /\ nodeTarget = Missing)
             /\ install =
                  [pc |-> "ready", command |-> "none", workspace |-> workspace,
                   platform |-> platform, autoInstall |-> autoInstall,
                   bashSource |-> bashSource, nodeSource |-> nodeSource,
                   bashTarget |-> IF bashExists THEN File(bashContent, "0644") ELSE Missing,
                   nodeTarget |-> nodeTarget,
                   priorBash |-> IF bashExists THEN File(bashContent, "0644") ELSE Missing,
                   priorNode |-> nodeTarget,
                   result |-> "none", message |-> NoMessage]

besidesInstall == <<handlerVars, truncVars, schema, parse, hook, clientVars>>

InstallHookCommand ==
    /\ install.pc = "ready"
    /\ \E failAt \in FailPoints : install' = installHook(install, failAt)
    /\ UNCHANGED besidesInstall

AutoInstallHook ==
    /\ install.pc = "ready"
    /\ \E failAt \in FailPoints : install' = autoInstallHook(install, failAt)
    /\ UNCHANGED besidesInstall

InstallNext == InstallHookCommand \/ AutoInstallHook

InstallSpec == InstallInit /\ [][InstallNext]_vars

----------------------------------------------------------------------------
(* Properties of the hook installation *)

\* the bundled hook with its BOM stripped and CRLF converted to LF
Bundled(content) ==
    LET noBOM == IF content # <<>> /\ content[1] = "BOM"
                 THEN SubSeq(content, 2, Len(content)) ELSE content
    IN  replaceCRLF(noBOM)

\* C18: after the install command completes without error, both
\* .git/hooks/pre-commit and .git/hooks/pre-commit.js exist with the bundled
\* content (BOM stripped, CRLF converted to LF), whatever the hooks
\* directory held before.
C18_BothHooksInstalled ==
    install.pc = "done" /\ install.command = "manual" /\ install.message.level # "error"
        => /\ install.bashTarget.exists
           /\ install.bashTarget.content = Bundled(install.bashSource)
           /\ install.nodeTarget.exists
           /\ install.nodeTarget.content = Bundled(install.nodeSource)

----------------------------------------------------------------------------
(* tryParse and the two continuations of reviewDiff applied to every       *)
(* bounded response text                                                   *)

ParseFindings ==
    {<<>>, <<FWarn>>, <<FCrit, FNit>>, <<FWarn, FBackwards>>, <<FBlocker>>}

ParseSummaries ==
    { SummaryJson(Num(2), Counts(1, 0, 0, 1), Num(5)),
      SummaryJson(Num(2), Counts(0, 0, 2, -1), Num(5)),
      SummaryJson(Num(2), [Counts(0, 0, 1, 1) EXCEPT !["nit"] = Frac(0)], Num(5)),
      SummaryJson(Frac(1), Counts(0, 0, 1, 0), Num(5)),
      SummaryJson(Num(1), Counts(0, 0, 1, 0), Num(-1)),
      SummaryJson(Absent, Counts(0, 0, 1, 0), Num(5)),
      NoSummaryJson }

ParseTexts ==
    { Text(ws, json, Json(findings, summary)) :
        ws \in BOOLEAN, json \in BOOLEAN,
        findings \in ParseFindings, summary \in ParseSummaries }

ParseInit ==
    /\ ClientsOff
    /\ ServerOff
    /\ TruncOff
    /\ schema = NotRunning
    /\ hook = NotRunning
    /\ install = NotRunning
    /\ \E text \in ParseTexts :
          parse = [pc |-> "init", text |-> text, ok |-> FALSE,
                   afterFirst |-> Throw(""), afterRepair |-> Throw("")]

\* the text arrives as the first response, and as the repair response
Parse ==
    /\ parse.pc = "init"
    /\ parse' = [parse EXCEPT
          !.pc = "done",
          !.ok = tryParse(parse.text).ok,
          !.afterFirst = reviewDiffAfterFirst(parse.text),
          !.afterRepair = reviewDiffAfterRepair(parse.text)]
    /\ UNCHANGED <<handlerVars, truncVars, schema, hook, install, clientVars>>

ParseNext == Parse

ParseSpec == ParseInit /\ [][ParseNext]_vars

----------------------------------------------------------------------------
(* Properties of tryParse *)

\* strict JSON that satisfies the response schema
GoodResponse(text) ==
    /\ text.json
    /\ \A i \in 1..Len(text.value.findings) : GoodFinding(text.value.findings[i])
    /\ GoodSummary(text.value.summary)

\* C19: parse-and-validate never throws: a text that is not strict JSON and
\* a JSON text whose findings or summary (missing, negative or non-integer
\* count) violate the schema both give the same invalid outcome, which
\* makes the first response trigger the repair call and the second fail
\* for good.
C19_InvalidIsOneOutcome ==
    parse.pc = "done" =>
        /\ parse.ok = GoodResponse(parse.text)
        /\ ~GoodResponse(parse.text) =>
              /\ parse.afterFirst.kind = "call"
              /\ parse.afterFirst.prompt = buildRepairPrompt(parse.text)
              /\ parse.afterRepair = Throw("Model returned invalid JSON after repair attempt")

C19_Witness ==
    /\ parse.pc = "done"
    /\ parse.text.json
    /\ parse.text.ws
    /\ \A i \in 1..Len(parse.text.value.findings) :
          GoodFinding(parse.text.value.findings[i])
    /\ parse.text.value.summary.present
    /\ parse.text.value.summary.bySeverity["nit"] = Frac(0)
    /\ ~parse.ok
    /\ parse.afterFirst.kind = "call"
    /\ parse.afterRepair.kind = "throw"

----------------------------------------------------------------------------
(* The extension's panel and review history.  The status file of one       *)
(* repository is written by runs of the status-reporting hook (started,    *)
(* then a terminal status) and read by handleHookStatusFile, which the     *)
(* file watcher and the 750 ms poller invoke; every invocation reads the   *)
(* file, and continues with what it read once the read has returned.       *)

NumRuns == 1
MaxInFlight == 2
MaxReviews == 1

\* payload.runId || "": the empty runId
NoRunId == -1

\* the content of the status file: ts is the timestamp, stale a timestamp
\* more than two minutes old when read; the runs of the hook are numbered
\* from 1, run 0 is one of an earlier session
Payload(status, runId, ts, hasResponse, stale) ==
    [status |-> status, runId |-> runId, ts |-> ts,
     hasResponse |-> hasResponse, stale |-> stale]
NoFile == Payload("nofile", NoRunId, 0, FALSE, FALSE)
\* what an earlier session of the hook left behind
OldStatus == Payload("completed", 0, 0, TRUE, TRUE)

\* `${runId}|${status}|${timestamp}|${message}`: the message is fixed by the status
signatureOf(p) == <<p.runId, p.status, p.ts>>

NoState == [has |-> FALSE, runId |-> NoRunId, lastSignature |-> <<>>]
HookStateOf(runId, signature) ==
    [has |-> TRUE, runId |-> runId, lastSignature |-> signature]

Entry(id, label, runId) == [id |-> id, label |-> label, runId |-> runId]

\* the id of the entry about to be created: `${Date.now()}-${random}`
freshId(e) == Len(e.reviewHistory) + 1

\* reviewHistory.find((item) => item.id === id), 0 when there is none
find(history, id) ==
    IF \E i \in 1..Len(history) : history[i].id = id THEN id ELSE 0

show(e, html, by) == [e EXCEPT !.panel = [open |-> TRUE, html |-> html, by |-> by]]

\* openPanel: reveals the panel, or creates it and renders the active entry
openPanel(e) ==
    IF e.panel.open THEN e
    ELSE IF Len(e.reviewHistory) > 0
         THEN LET found == find(e.reviewHistory, e.activeReviewId)
                  id == IF found # 0 THEN found ELSE e.reviewHistory[1].id
              IN  [show(e, "results", "none") EXCEPT
                      !.activeReviewId = id, !.activeReviewEntry = id]
         ELSE IF e.lastReview
              THEN [show(e, "results", "none") EXCEPT !.activeReviewEntry = -1]
              ELSE show(e, "empty", "none")

renderResults(e, id) ==
    [show(openPanel(e), "results", "none") EXCEPT !.activeReviewEntry = id]

\* ghost: the payload an invocation has acted on last, and whether an
\* invocation acted on it once more
noteAct(e, p) ==
    [e EXCEPT !.repeated = @ \/ p = e.lastActed, !.lastActed = p]

\* handleHookStatusFile after the read: payload p is what the file held
handleHookStatus(e, p) ==
    LET runId == p.runId
        signature == signatureOf(p)
        state == e.state
    IN  IF ~state.has /\ p.stale
        THEN [e EXCEPT !.state = HookStateOf(runId, signature)]
        ELSE IF state.has /\ state.lastSignature = signature THEN e
        ELSE IF /\ p.status \in {"completed", "error"}
                /\ state.has /\ state.runId # NoRunId /\ runId # NoRunId /\ state.runId # runId
        THEN e
        ELSE IF p.status = "started"
        THEN noteAct(show(openPanel([e EXCEPT !.state = HookStateOf(runId, signature)]),
                          "loading", "hook"), p)
        ELSE IF p.status = "error"
        THEN noteAct(show(openPanel([e EXCEPT !.state =
                              HookStateOf(IF runId # NoRunId THEN runId ELSE state.runId,
                                          signature)]),
                          "error", "hook"), p)
        ELSE IF ~p.hasResponse
        THEN noteAct(show(openPanel(e), "error", "hook"), p)
        ELSE LET id == freshId(e)
                 added == [e EXCEPT
                     !.reviewHistory = <<Entry(id, "Pre-commit", runId)>> \o @,
                     !.activeReviewId = id]
             IN  noteAct([renderResults(added, id) EXCEPT !.state =
                              HookStateOf(IF runId # NoRunId THEN runId ELSE state.runId,
                                          signature)], p)

\* reviewStaged up to the await of callBackend, for a staged diff that is
\* empty or not
reviewStagedStart(e, emptyDiff) ==
    IF emptyDiff
    THEN LET opened == openPanel(e)
         IN  show(opened, IF opened.activeReviewEntry # 0 THEN "results" ELSE "empty",
                  "none")
    ELSE [show(openPanel(e), "loading", "review") EXCEPT
             !.calling = @ + 1, !.reviews = @ + 1]

\* reviewStaged after callBackend has returned (ok) or thrown
reviewStagedSettle(e, ok) ==
    IF ~ok THEN [e EXCEPT !.calling = @ - 1]
    ELSE LET id == freshId(e)
             added == [e EXCEPT
                 !.calling = @ - 1,
                 !.lastReview = TRUE,
                 !.reviewHistory = <<Entry(id, "Pending commit", 0)>> \o @,
                 !.activeReviewId = id]
         IN  renderResults(added, id)

\* variant: the id of the message is taken without looking it up
selectReview_AnyId(e, id) ==
    renderResults([e EXCEPT !.activeReviewId = id], id)

\* the panel's selectReview message
selectReview(e, id) ==
    LET entry == find(e.reviewHistory, id)
    IN  IF entry # 0
        THEN renderResults([e EXCEPT !.activeReviewId = entry], entry)
        ELSE e

ExtInit ==
    /\ ServerOff
    /\ TruncOff
    /\ schema = NotRunning
    /\ parse = NotRunning
    /\ hook = NotRunning
    /\ install = NotRunning
    /\ statusHook = NotRunning
    /\ watch = NotRunning
    /\ \E seed \in {<<NoFile, NoState>>, <<OldStatus, NoState>>,
                    <<OldStatus, HookStateOf(OldStatus.runId, signatureOf(OldStatus))>>} :
          ext = [file |-> seed[1], state |-> seed[2],
                 hookPc |-> "idle", run |-> 0, ts |-> 0, inflight |-> <<>>,
                 panel |-> [open |-> FALSE, html |-> "none", by |-> "none"],
                 reviewHistory |-> <<>>, activeReviewId |-> 0, activeReviewEntry |-> 0,
                 lastReview |-> FALSE, calling |-> 0, reviews |-> 0,
                 lastActed |-> NoFile, repeated |-> FALSE]

besidesExt ==
    <<handlerVars, truncVars, schema, parse, hook, install, statusHook, watch>>

\* writeStatus({status: "started"}) of the next run of the hook
HookWritesStarted ==
    /\ ext.hookPc = "idle"
    /\ ext.run < NumRuns
    /\ ext' = [ext EXCEPT
          !.hookPc = "started", !.run = @ + 1, !.ts = @ + 1,
          !.file = Payload("started", ext.run + 1, ext.ts + 1, FALSE, FALSE)]
    /\ UNCHANGED besidesExt

\* the terminal writeStatus of the run: completed with the response, error,
\* or completed with a falsy response (the backend's body was the JSON null,
\* 0, false or ""); after null, data.findings throws and main().catch
\* follows with error, after the others the hook ends normally
HookWritesTerminal ==
    /\ \/ /\ ext.hookPc = "started"
          /\ \E status \in {"completed", "error"}, hasResponse \in BOOLEAN,
                dataIsNull \in BOOLEAN :
                /\ hasResponse => status = "completed"
                /\ dataIsNull => status = "completed" /\ ~hasResponse
                /\ ext' = [ext EXCEPT
                      !.hookPc = IF dataIsNull THEN "crashing" ELSE "idle",
                      !.ts = @ + 1,
                      !.file = Payload(status, ext.run, ext.ts + 1, hasResponse, FALSE)]
       \/ /\ ext.hookPc = "crashing"
          /\ ext' = [ext EXCEPT
                !.hookPc = "idle", !.ts = @ + 1,
                !.file = Payload("error", ext.run, ext.ts + 1, FALSE, FALSE)]
    /\ UNCHANGED besidesExt

\* the watcher or the poller invokes handleHookStatusFile, whose readFile
\* returns what the file holds
ReadStatus ==
    /\ ext.file # NoFile
    /\ Len(ext.inflight) < MaxInFlight
    /\ ext' = [ext EXCEPT !.inflight = Append(@, ext.file)]
    /\ UNCHANGED besidesExt

\* an invocation continues after its read
ProcessStatus ==
    /\ \E i \in 1..Len(ext.inflight) :
          LET p == ext.inflight[i]
              rest == SubSeq(ext.inflight, 1, i - 1)
                          \o SubSeq(ext.inflight, i + 1, Len(ext.inflight))
          IN  ext' = handleHookStatus([ext EXCEPT !.inflight = rest], p)
    /\ UNCHANGED besidesExt

ReviewStaged ==
    /\ ext.reviews < MaxReviews
    /\ \E emptyDiff \in BOOLEAN : ext' = reviewStagedStart(ext, emptyDiff)
    /\ UNCHANGED besidesExt

BackendSettles ==
    /\ ext.calling > 0
    /\ \E ok \in BOOLEAN : ext' = reviewStagedSettle(ext, ok)
    /\ UNCHANGED besidesExt

\* the webview posts selectReview with an id of the history it shows, or any other
SelectReview ==
    /\ ext.panel.open
    /\ \E id \in 1..(Len(ext.reviewHistory) + 1) : ext' = selectReview(ext, id)
    /\ UNCHANGED besidesExt

\* the user closes the panel: onDidDispose
DisposePanel ==
    /\ ext.panel.open
    /\ ext' = [ext EXCEPT !.panel = [open |-> FALSE, html |-> "none", by |-> "none"]]
    /\ UNCHANGED besidesExt

ExtNext ==
    \/ HookWritesStarted
    \/ HookWritesTerminal
    \/ ReadStatus
    \/ ProcessStatus
    \/ ReviewStaged
    \/ BackendSettles
    \/ SelectReview
    \/ DisposePanel

ExtSpec == ExtInit /\ [][ExtNext]_vars

\* the 750 ms poller keeps invoking handleHookStatusFile, and every read returns
ExtLiveSpec ==
    ExtInit /\ [][ExtNext]_vars /\ WF_vars(ReadStatus) /\ WF_vars(ProcessStatus)

----------------------------------------------------------------------------
(* Properties of the extension's panel and review history *)

HasEntryOfRun(k) ==
    \E i \in 1..Len(ext.reviewHistory) : ext.reviewHistory[i].runId = k

CompletedStaysInFile(k) ==
    /\ ext.file.status = "completed"
    /\ ext.file.runId = k
    /\ ext.file.hasResponse

\* C21: when the hook has written started and then completed with a
\* response for a run, and the completed status stays in the file, the
\* extension eventually adds a history entry for that run, also when it
\* never read the started status and a previous run's runId is recorded.
C21_CompletedRunIsEventuallyShown ==
    \A k \in 1..NumRuns : <>[]CompletedStaysInFile(k) => <>HasEntryOfRun(k)

\* C22: the status payload that handleHookStatusFile has acted on last is
\* not acted on again by a later invocation reading the same file content.
C22_NoPayloadActedOnTwice == ~ext.repeated

----------------------------------------------------------------------------
(* The status-reporting pre-commit hook: the process, run after run, and
   the statuses it writes to .git/safecommit/review.json *)

NumHookRuns == 2

\* what `await response.json()` gives the hook: it throws, or the body's value
StatusData == {"throws", "null", "falsy", "clean", "blocking"}

Written(status, runId, hasResponse) ==
    [status |-> status, runId |-> runId, hasResponse |-> hasResponse]

\* writeStatus: nothing without repoRoot, runId or a resolvable git
\* directory; a falsy response is left out of the payload
writeStatus(h, status, runId, hasResponse) ==
    IF runId = NoRunId \/ ~h.writable THEN h
    ELSE [h EXCEPT !.writes = Append(@, Written(status, runId, hasResponse))]

statusExit(h, code, path) == [h EXCEPT !.pc = "exited", !.exit = code, !.path = path]

\* variant: the handler of main()'s rejection only prints
mainCatch_Silent(h, path) ==
    statusExit(h, 0, path)

\* main().catch
mainCatch(h, path) ==
    statusExit(IF h.activeRunId # NoRunId
               THEN writeStatus(h, "error", h.activeRunId, FALSE)
               ELSE h,
               0, path)

\* main up to the prompt
statusStart(h, isRepo, writable) ==
    LET fresh == [h EXCEPT !.run = @ + 1, !.activeRunId = NoRunId,
                           !.writable = writable, !.exit = -1, !.path = "none",
                           !.requested = FALSE, !.isRepo = isRepo,
                           !.answer = "", !.diffOut = Threw]
    IN  IF ~isRepo THEN statusExit(fresh, 0, "notRepo")
        ELSE [fresh EXCEPT !.pc = "prompting"]

\* variant: an empty staged diff is sent for review like any other
statusAfterPrompt_ReviewsEmpty(h, answer, diffOut, namesOut) ==
    LET reply == toLowerCase(IF answer = "" THEN "Y" ELSE answer)
        runId == h.run
        asked == [h EXCEPT !.answer = answer]
        started == writeStatus([asked EXCEPT !.activeRunId = runId, !.diffOut = diffOut],
                               "started", runId, FALSE)
    IN  IF reply # "y" /\ reply # "yes" THEN statusExit(asked, 0, "declined")
        ELSE IF ~diffOut.ok
        THEN statusExit(writeStatus(started, "error", runId, FALSE), 0, "diffFailed")
        ELSE IF ~namesOut.ok THEN mainCatch(started, "namesFailed")
        ELSE [started EXCEPT !.pc = "fetching", !.requested = TRUE]

\* main from the answer to the fetch
statusAfterPrompt(h, answer, diffOut, namesOut) ==
    LET reply == toLowerCase(IF answer = "" THEN "Y" ELSE answer)
        runId == h.run
        asked == [h EXCEPT !.answer = answer]
        started == writeStatus([asked EXCEPT !.activeRunId = runId, !.diffOut = diffOut],
                               "started", runId, FALSE)
    IN  IF reply # "y" /\ reply # "yes" THEN statusExit(asked, 0, "declined")
        ELSE IF ~diffOut.ok
        THEN statusExit(writeStatus(started, "error", runId, FALSE), 0, "diffFailed")
        ELSE IF trimIsEmpty(diffOut.out)
        THEN statusExit(writeStatus(started, "completed", runId, TRUE), 0, "emptyDiff")
        ELSE IF ~namesOut.ok THEN mainCatch(started, "namesFailed")
        ELSE [started EXCEPT !.pc = "fetching", !.requested = TRUE]

\* main from the fetch's result to response.json()
statusAfterFetch(h, response) ==
    IF response \in {"none", "notOk"}
    THEN statusExit(writeStatus(h, "error", h.activeRunId, FALSE), 0, "unavailable")
    ELSE [h EXCEPT !.pc = "parsing"]

\* main from response.json() to the end
statusAfterJson(h, data) ==
    LET runId == h.activeRunId
    IN  IF data = "throws"
        THEN statusExit(writeStatus(h, "error", runId, FALSE), 0, "invalidJson")
        ELSE LET completed == writeStatus(h, "completed", runId,
                                          data \in {"clean", "blocking"})
             IN  IF data = "null" THEN mainCatch(completed, "nullData")
                 ELSE IF data = "blocking" THEN statusExit(completed, 1, "blocked")
                 ELSE statusExit(completed, 0, "passed")

StatusHookInit ==
    /\ ServerOff
    /\ TruncOff
    /\ schema = NotRunning
    /\ parse = NotRunning
    /\ hook = NotRunning
    /\ install = NotRunning
    /\ ext = NotRunning
    /\ watch = NotRunning
    /\ statusHook = [pc |-> "exited", run |-> 0, activeRunId |-> NoRunId,
                     writable |-> TRUE, writes |-> <<>>, exit |-> 0,
                     path |-> "none", requested |-> FALSE,
                     isRepo |-> FALSE, answer |-> "", diffOut |-> Threw]

besidesStatusHook ==
    <<handlerVars, truncVars, schema, parse, hook, install, ext, watch>>

\* git runs the hook for the next commit
StatusHookStart ==
    /\ statusHook.pc = "exited"
    /\ statusHook.run < NumHookRuns
    /\ \E isRepo \in BOOLEAN, writable \in BOOLEAN :
          statusHook' = statusStart(statusHook, isRepo, writable)
    /\ UNCHANGED besidesStatusHook

StatusHookAnswered ==
    /\ statusHook.pc = "prompting"
    /\ \E answer \in HookAnswers, diffOut \in DiffOutputs, namesOut \in NameOutputs :
          statusHook' = statusAfterPrompt(statusHook, answer, diffOut, namesOut)
    /\ UNCHANGED besidesStatusHook

StatusHookFetched ==
    /\ statusHook.pc = "fetching"
    /\ \E response \in {"none", "notOk", "ok"} :
          statusHook' = statusAfterFetch(statusHook, response)
    /\ UNCHANGED besidesStatusHook

StatusHookParsed ==
    /\ statusHook.pc = "parsing"
    /\ \E data \in StatusData : statusHook' = statusAfterJson(statusHook, data)
    /\ UNCHANGED besidesStatusHook

StatusHookNext ==
    \/ StatusHookStart
    \/ StatusHookAnswered
    \/ StatusHookFetched
    \/ StatusHookParsed

StatusHookSpec == StatusHookInit /\ [][StatusHookNext]_vars

IndexOfStarted(runId) ==
    {i \in 1..Len(statusHook.writes) :
        statusHook.writes[i] = Written("started", runId, FALSE)}

IndexOfTerminal(runId) ==
    {i \in 1..Len(statusHook.writes) :
        /\ statusHook.writes[i].runId = runId
        /\ statusHook.writes[i].status \in {"completed", "error"}}

----------------------------------------------------------------------------
(* Frame of installHookFiles *)

\* an existing file whose normalized content is not the bundled hook's
UsersOwn(prior, source) ==
    prior.exists /\ readNormalizedFile(prior.content) # readNormalizedFile(source)

\* C24: after a manual or automatic install, an existing pre-commit or
\* pre-commit.js whose normalized content differs from the bundled hook is
\* as it was before, whether one or both target files existed.
C24_UsersHookLeftUnchanged ==
    install.pc = "done"
        => /\ UsersOwn(install.priorBash, install.bashSource)
                => install.bashTarget = install.priorBash
           /\ UsersOwn(install.priorNode, install.nodeSource)
                => install.nodeTarget = install.priorNode

\* C25: once every reviewStaged command has finished, the panel no longer
\* shows the loading view that reviewStaged rendered before calling the
\* backend, after a backend failure as after a success.
C25_LoadingViewReplaced ==
    ext.calling = 0 => ~(ext.panel.open /\ ext.panel.html = "loading" /\ ext.panel.by = "review")

\* the answers that decline the review
Declined(answer) == answer \in {"n", "later"}

\* the three cases in which there is nothing to review
NothingToReview ==
    \/ ~statusHook.isRepo
    \/ Declined(statusHook.answer)
    \/ statusHook.diffOut.ok /\ trimIsEmpty(statusHook.diffOut.out)

\* C26: a run of the hook outside a git repository, with the prompt
\* declined, or with an empty staged diff sends no request to the backend
\* at any point and exits with status 0.
C26_NothingToReviewExitsZeroUnsent ==
    statusHook.run > 0 /\ NothingToReview
        => /\ ~statusHook.requested
           /\ statusHook.pc = "exited" => statusHook.exit = 0

\* the hook has exited on a staged diff of one newline, after accepting the
\* prompt with "Yes"
C26_Witness ==
    /\ statusHook.pc = "exited"
    /\ statusHook.isRepo
    /\ statusHook.answer = "Yes"
    /\ statusHook.diffOut = Output(<<Newline>>)
    /\ statusHook.path = "emptyDiff"

----------------------------------------------------------------------------
(* The extension's hook watchers: setupHookWatchers calls in flight, the
   workspace's folders, and what is registered for each git directory *)

MaxSetups == 3

\* the folders a workspace can hold, in the order of workspaceFolders; "n"
\* is not inside a git repository, the others are the roots of one
FolderOrder == <<"a", "b", "n">>
Folders == {FolderOrder[i] : i \in 1..Len(FolderOrder)}
Repos == {"a", "b"}

RECURSIVE workspaceFolders(_, _)
workspaceFolders(open, order) ==
    IF order = <<>> THEN <<>>
    ELSE (IF Head(order) \in open THEN <<Head(order)>> ELSE <<>>)
             \o workspaceFolders(open, Tail(order))

\* findRepoRoot: the folder itself, or undefined
findRepoRoot(folder) == IF folder \in Repos THEN folder ELSE "undefined"

Task(at, folder, rest) == [at |-> at, folder |-> folder, rest |-> rest]

\* the for loop of setupHookWatchers reaches its next await findRepoRoot,
\* or ends
nextFolder(rest) ==
    IF rest = <<>> THEN <<>>
    ELSE <<Task("findRepoRoot", Head(rest), Tail(rest))>>

replaceTask(w, i, tasks) ==
    [w EXCEPT !.tasks = SubSeq(@, 1, i - 1) \o tasks \o SubSeq(@, i + 1, Len(@))]

\* setupHookWatchers up to its first await
setupHookWatchers(w) ==
    [w EXCEPT !.tasks = @ \o nextFolder(workspaceFolders(w.folders, FolderOrder)),
              !.setups = @ + 1]

\* setupHookWatchers from the result of findRepoRoot to the await in
\* ensureHookWatcher
afterFindRepoRoot(w, i) ==
    LET t == w.tasks[i]
    IN  IF findRepoRoot(t.folder) = "undefined"
        THEN replaceTask(w, i, nextFolder(t.rest))
        ELSE replaceTask(w, i, <<Task("findGitDir", t.folder, t.rest)>>)

ensureHookPoller(w, gitDir) ==
    IF w.hookPollers[gitDir] THEN w
    ELSE [w EXCEPT !.hookPollers[gitDir] = TRUE, !.livePollers[gitDir] = @ + 1]

\* variant: the watcher is created without looking into hookWatchers
ensureHookWatcher_Unchecked(w, i, found) ==
    LET t == w.tasks[i]
        gitDir == findRepoRoot(t.folder)
        onward == replaceTask(w, i, nextFolder(t.rest))
    IN  IF ~found THEN onward
        ELSE ensureHookPoller(
                 [onward EXCEPT !.hookWatchers[gitDir] = TRUE,
                                !.liveWatchers[gitDir] = @ + 1,
                                !.seeding[gitDir] = @ + 1], gitDir)

\* ensureHookWatcher from the result of findGitDir, and the loop of
\* setupHookWatchers up to its next await
ensureHookWatcher(w, i, found) ==
    LET t == w.tasks[i]
        gitDir == findRepoRoot(t.folder)
        onward == replaceTask(w, i, nextFolder(t.rest))
    IN  IF ~found THEN onward
        ELSE IF w.hookWatchers[gitDir] THEN [onward EXCEPT !.skipped = TRUE]
        ELSE ensureHookPoller(
                 [onward EXCEPT !.hookWatchers[gitDir] = TRUE,
                                !.liveWatchers[gitDir] = @ + 1,
                                !.seeding[gitDir] = @ + 1], gitDir)

\* seedHookState after its readFile
seedHookState(w, repoRoot, readable) ==
    [w EXCEPT !.seeding[repoRoot] = @ - 1,
              !.hookStates[repoRoot] = @ \/ readable]

disposeRemovedHookWatchers(w, removed) ==
    LET hit(g) == g \in removed /\ w.hookWatchers[g]
    IN  [w EXCEPT
            !.hookWatchers = [g \in Repos |-> @[g] /\ ~hit(g)],
            !.liveWatchers = [g \in Repos |-> IF hit(g) THEN @[g] - 1 ELSE @[g]],
            !.hookStates = [g \in Repos |-> @[g] /\ ~hit(g)],
            !.hookPollers = [g \in Repos |-> @[g] /\ ~hit(g)],
            !.livePollers = [g \in Repos |->
                                IF hit(g) /\ w.hookPollers[g] THEN @[g] - 1 ELSE @[g]]]

\* the handler of onDidChangeWorkspaceFolders
onDidChangeWorkspaceFolders(w, open) ==
    disposeRemovedHookWatchers(
        setupHookWatchers([w EXCEPT !.folders = open,
                                    !.removed = @ \cup (w.folders \ open)]),
        w.folders \ open)

WatchInit ==
    /\ ServerOff
    /\ TruncOff
    /\ schema = NotRunning
    /\ parse = NotRunning
    /\ hook = NotRunning
    /\ install = NotRunning
    /\ statusHook = NotRunning
    /\ ext = NotRunning
    /\ \E open \in SUBSET Folders :
          watch = [pc |-> "inactive", folders |-> open, removed |-> {},
                   tasks |-> <<>>, setups |-> 0, skipped |-> FALSE,
                   hookWatchers |-> [g \in Repos |-> FALSE],
                   hookPollers |-> [g \in Repos |-> FALSE],
                   hookStates |-> [g \in Repos |-> FALSE],
                   liveWatchers |-> [g \in Repos |-> 0],
                   livePollers |-> [g \in Repos |-> 0],
                   seeding |-> [g \in Repos |-> 0]]

besidesWatch ==
    <<handlerVars, truncVars, schema, parse, hook, install, statusHook, ext>>

Activate ==
    /\ watch.pc = "inactive"
    /\ watch' = setupHookWatchers([watch EXCEPT !.pc = "active"])
    /\ UNCHANGED besidesWatch

FoldersChanged ==
    /\ watch.pc = "active"
    /\ watch.setups < MaxSetups
    /\ \E open \in SUBSET Folders :
          /\ open # watch.folders
          /\ watch' = onDidChangeWorkspaceFolders(watch, open)
    /\ UNCHANGED besidesWatch

RepoRootFound ==
    /\ watch.pc = "active"
    /\ \E i \in 1..Len(watch.tasks) :
          /\ watch.tasks[i].at = "findRepoRoot"
          /\ watch' = afterFindRepoRoot(watch, i)
    /\ UNCHANGED besidesWatch

\* git rev-parse --git-dir has answered, or failed
GitDirFound ==
    /\ watch.pc = "active"
    /\ \E i \in 1..Len(watch.tasks), found \in BOOLEAN :
          /\ watch.tasks[i].at = "findGitDir"
          /\ watch' = ensureHookWatcher(watch, i, found)
    /\ UNCHANGED besidesWatch

SeedRead ==
    /\ watch.pc = "active"
    /\ \E repoRoot \in Repos, readable \in BOOLEAN :
          /\ watch.seeding[repoRoot] > 0
          /\ watch' = seedHookState(watch, repoRoot, readable)
    /\ UNCHANGED besidesWatch

WatchNext ==
    \/ Activate
    \/ FoldersChanged
    \/ RepoRootFound
    \/ GitDirFound
    \/ SeedRead

WatchSpec == WatchInit /\ [][WatchNext]_vars

\* C27: at every moment each git directory has at most one file-system
\* watcher that is not disposed and at most one polling timer that is not
\* cleared, however the setupHookWatchers calls in flight interleave.
C27_OneWatcherAndPollerPerGitDir ==
    \A g \in Repos : watch.liveWatchers[g] <= 1 /\ watch.livePollers[g] <= 1

\* two setupHookWatchers calls were in flight for repository a; one has
\* registered the watcher and the other has found it in hookWatchers
C27_Witness ==
    /\ watch.skipped
    /\ watch.liveWatchers["a"] = 1
    /\ watch.livePollers["a"] = 1
    /\ watch.tasks = <<>>

\* C28: once a workspace folder has been removed and no open folder lies in
\* the repository rooted there, no watcher, poller or hook state is
\* registered for that repository, also while a setupHookWatchers call
\* started before the removal is still in flight or has finished since.
C28_NothingRegisteredForRemovedFolder ==
    \A r \in Repos :
        r \in watch.removed /\ r \notin watch.folders
            => /\ ~watch.hookWatchers[r]
               /\ ~watch.hookPollers[r]
               /\ ~watch.hookStates[r]

ActiveIdInHistory ==
    ext.activeReviewId = 0 \/ find(ext.reviewHistory, ext.activeReviewId) # 0

HistoryGrowsAtFront ==
    \/ ext'.reviewHistory = ext.reviewHistory
    \/ /\ Len(ext'.reviewHistory) = Len(ext.reviewHistory) + 1
       /\ Tail(ext'.reviewHistory) = ext.reviewHistory

\* C29: activeReviewId is always undefined or the id of an entry of
\* reviewHistory, and every step leaves reviewHistory as it was or inserts
\* one entry at its front.
C29_ActiveIdInGrowingHistory ==
    []ActiveIdInHistory /\ [][HistoryGrowsAtFront]_vars

\* the history holds a manual review and a hook run, and the older of the
\* two has been selected in the panel
C29_Witness ==
    /\ Len(ext.reviewHistory) = 2
    /\ ext.activeReviewId = ext.reviewHistory[2].id
    /\ ext.activeReviewEntry = ext.reviewHistory[2].id
    /\ ext.panel.open

----------------------------------------------------------------------------
(* The three truncations of the staged diff *)

\* variant: the diff is cut to maxBytes characters
reviewStagedTruncate_ByChars(diff, maxBytes) ==
    LET diffBytes == byteLength(diff)
    IN  IF diffBytes > maxBytes
        THEN SubSeq(diff, 1, IF maxBytes < Len(diff) THEN maxBytes ELSE Len(diff))
        ELSE diff

\* reviewStaged: the truncation of the diff before the backend is called
reviewStagedTruncate(diff, maxBytes) ==
    LET diffBytes == byteLength(diff)
    IN  IF diffBytes > maxBytes
        THEN toString(subarray(BufferFrom(diff), maxBytes))
        ELSE diff

\* C30: for every string and every byte limit from 0 up, the server's
\* truncateByBytes, the hook's truncateByBytes and the extension's inline
\* truncation return the same string.
C30_SameTruncationEverywhere ==
    tPc = "done"
        => /\ tResult = hookTruncateByBytes(tInput, tMaxBytes)
           /\ tResult = reviewStagedTruncate(tInput, tMaxBytes)

\* a two-byte character cut in the middle: all three return "a" followed by
\* the replacement character
C30_Witness ==
    /\ tPc = "done"
    /\ tInput = <<"U0061", "U00E9">>
    /\ tMaxBytes = 2
    /\ tResult = <<"U0061", ReplacementChar>>
    /\ reviewStagedTruncate(tInput, tMaxBytes) = tResult

====
